---- MODULE Spec2Model ----
(***************************************************************************)
(* A model of the Hermes interpreter (src/main.cpp).                       *)
(*                                                                         *)
(* Source text is a sequence of lines, a line a sequence of one-character  *)
(* strings, so that the interpreter's textual dispatch (find, rfind,       *)
(* substr, regex_match) is modelled character by character.  Positions are *)
(* 0-based as in C++; NPOS stands for string::npos, and a negative count   *)
(* stands for the huge size_t a negative difference converts to.           *)
(***************************************************************************)
EXTENDS Integers, Sequences, FiniteSets, TLC

VARIABLES
    program,     \* descriptor of the file program.hm (see FileLines)
    stdin,       \* the lines still to be read from standard input
    rng,         \* the bits still to be drawn from the generator
    argOrder,    \* order in which the build evaluates function arguments
    pc,          \* position of main(): start, loaded, exec, done, aborted
    mainClass,   \* Interpreter::mainClass
    classes,     \* key set of Interpreter::classes
    variables,   \* Interpreter::variables
    stack,       \* activation records of executeBlock, innermost last
    out,         \* characters written to standard output
    err,         \* lines written to standard error
    steps        \* parity of the number of steps main() has taken

vars ==
    <<program, stdin, rng, argOrder, pc, mainClass, classes, variables, stack, out, err,
      steps>>

----------------------------------------------------------------------------
(* Bounds of the checked inputs.                                           *)

MaxN == 3
MaxLen == 3
MaxInt == 2

----------------------------------------------------------------------------
(* std::string operations.                                                 *)

NPOS == -1

Min(S) == CHOOSE x \in S : \A y \in S : x <= y
Max(S) == CHOOSE x \in S : \A y \in S : x >= y

At(s, i) == s[i + 1]

\* find(pat, from); a search that starts at npos finds nothing.
Find(s, pat, from) ==
    LET cands == {p \in from..(Len(s) - Len(pat)) : SubSeq(s, p + 1, p + Len(pat)) = pat}
    IN IF from < 0 \/ cands = {} THEN NPOS ELSE Min(cands)

RFind(s, pat) ==
    LET cands == {p \in 0..(Len(s) - Len(pat)) : SubSeq(s, p + 1, p + Len(pat)) = pat}
    IN IF cands = {} THEN NPOS ELSE Max(cands)

Contains(s, pat) == Find(s, pat, 0) # NPOS

\* substr(pos, n) for 0 <= pos <= size; a count past the end (or a negative
\* difference, huge as size_t) takes the rest of the string.
Substr(s, pos, n) ==
    SubSeq(s, pos + 1, IF n < 0 \/ pos + n > Len(s) THEN Len(s) ELSE pos + n)

\* substr(pos): the rest of the string.
SubstrFrom(s, pos) == SubSeq(s, pos + 1, Len(s))

\* substr throws std::out_of_range when pos > size (a wrapped npos included).
SubstrThrows(s, pos) == pos < 0 \/ pos > Len(s)

Whitespace == {" ", "\t", "\r", "\n"}
Digits == {"0", "1", "2", "3", "4", "5", "6", "7", "8", "9"}
Letters ==
    {"a", "b", "c", "d", "e", "f", "g", "h", "i", "j", "k", "l", "m",
     "n", "o", "p", "q", "r", "s", "t", "u", "v", "w", "x", "y", "z",
     "A", "B", "C", "D", "E", "F", "G", "H", "I", "J", "K", "L", "M",
     "N", "O", "P", "Q", "R", "S", "T", "U", "V", "W", "X", "Y", "Z"}
WordChars == Letters \cup Digits \cup {"_"}

trim(str) ==
    LET keep == {p \in 0..(Len(str) - 1) : At(str, p) \notin Whitespace}
    IN IF keep = {} THEN <<>>
       ELSE Substr(str, Min(keep), Max(keep) - Min(keep) + 1)

removeComments(line) ==
    LET pos == Find(line, <<"/", "/">>, 0)
    IN IF pos # NPOS THEN Substr(line, 0, pos) ELSE line

----------------------------------------------------------------------------
(* Numbers and their text.                                                 *)

DigitChars == <<"0", "1", "2", "3", "4", "5", "6", "7", "8", "9">>
DigitVal(c) == (CHOOSE k \in 1..10 : DigitChars[k] = c) - 1

RECURSIVE DigitsVal(_)
DigitsVal(ds) ==
    IF ds = <<>> THEN 0
    ELSE 10 * DigitsVal(SubSeq(ds, 1, Len(ds) - 1)) + DigitVal(ds[Len(ds)])

RECURSIVE NatToString(_)
NatToString(n) ==
    IF n < 10 THEN <<DigitChars[n + 1]>>
    ELSE NatToString(n \div 10) \o <<DigitChars[(n % 10) + 1]>>

\* std::to_string(int)
IntToString(n) == IF n < 0 THEN <<"-">> \o NatToString(0 - n) ELSE NatToString(n)

\* Length of the longest prefix of s made of characters of set cs.
RECURSIVE PrefixLen(_, _)
PrefixLen(s, cs) ==
    IF s # <<>> /\ s[1] \in cs THEN 1 + PrefixLen(Tail(s), cs) ELSE 0

\* The decimal digits of INT_MAX and of -INT_MIN.
IntMaxDigits == <<"2", "1", "4", "7", "4", "8", "3", "6", "4", "7">>
IntMinDigits == <<"2", "1", "4", "7", "4", "8", "3", "6", "4", "8">>

\* Whether the number written by digits ds exceeds the one written by lim.
DigitsExceed(ds, lim) ==
    LET z == PrefixLen(ds, {"0"})
        d == SubSeq(ds, z + 1, Len(ds))
    IN \/ Len(d) > Len(lim)
       \/ /\ Len(d) = Len(lim)
          /\ \E k \in 1..Len(d) :
                /\ DigitVal(d[k]) > DigitVal(lim[k])
                /\ \A j \in 1..(k - 1) : d[j] = lim[j]

\* regex -?[0-9]+
IsIntLiteral(expr) ==
    LET body == IF expr # <<>> /\ expr[1] = "-" THEN Tail(expr) ELSE expr
    IN body # <<>> /\ PrefixLen(body, Digits) = Len(body)

\* regex -?[0-9]+\.[0-9]+
IsFloatLiteral(expr) ==
    LET body == IF expr # <<>> /\ expr[1] = "-" THEN Tail(expr) ELSE expr
        n == PrefixLen(body, Digits)
        frac == SubSeq(body, n + 2, Len(body))
    IN /\ n > 0
       /\ Len(body) > n + 1
       /\ body[n + 1] = "."
       /\ PrefixLen(frac, Digits) = Len(frac)

\* std::stoi: skips leading white space, takes an optional sign and the
\* longest run of digits; throws when there is no digit or the value does
\* not fit an int.  The result is [ok, val].
stoi(s) ==
    LET ws == PrefixLen(s, Whitespace \cup {"\f"})
        t == SubstrFrom(s, ws)
        signed == t # <<>> /\ t[1] \in {"-", "+"}
        u == IF signed THEN Tail(t) ELSE t
        n == PrefixLen(u, Digits)
        neg == signed /\ t[1] = "-"
        ds == SubSeq(u, 1, n)
    IN IF n = 0 \/ DigitsExceed(ds, IF neg THEN IntMinDigits ELSE IntMaxDigits)
       THEN [ok |-> FALSE, val |-> 0]
       ELSE [ok |-> TRUE, val |-> IF neg THEN 0 - DigitsVal(ds) ELSE DigitsVal(ds)]

\* A double is kept as a whole number of thousandths: exact for the decimal
\* text of up to three fraction digits that the checked programs use.
FloatScale == 1000
FracDigits == 3

RECURSIVE Pow10(_)
Pow10(k) == IF k <= 0 THEN 1 ELSE 10 * Pow10(k - 1)

\* std::stod on decimal text: white space, optional sign, digits with an
\* optional fraction; throws when no digit is found.  The result is [ok, val].
stod(s) ==
    LET ws == PrefixLen(s, Whitespace \cup {"\f"})
        t == SubstrFrom(s, ws)
        signed == t # <<>> /\ t[1] \in {"-", "+"}
        u == IF signed THEN Tail(t) ELSE t
        n == PrefixLen(u, Digits)
        hasDot == Len(u) > n /\ u[n + 1] = "."
        rest == IF hasDot THEN SubSeq(u, n + 2, Len(u)) ELSE <<>>
        f == PrefixLen(rest, Digits)
        fd == SubSeq(rest, 1, IF f > FracDigits THEN FracDigits ELSE f)
        mag == DigitsVal(SubSeq(u, 1, n)) * FloatScale
               + DigitsVal(fd) * Pow10(FracDigits - Len(fd))
        v == IF signed /\ t[1] = "-" THEN 0 - mag ELSE mag
    IN IF n = 0 /\ f = 0
       THEN [ok |-> FALSE, val |-> 0]
       ELSE [ok |-> TRUE, val |-> v]

\* std::to_string(double): "%f", six decimals.
FloatToString(v) ==
    LET mag == IF v < 0 THEN 0 - v ELSE v
        fracDigits == NatToString(mag % FloatScale)
        pad == [k \in 1..(FracDigits - Len(fracDigits)) |-> "0"]
    IN (IF v < 0 THEN <<"-">> ELSE <<>>)
       \o NatToString(mag \div FloatScale) \o <<".">> \o pad \o fracDigits
       \o <<"0", "0", "0">>

----------------------------------------------------------------------------
(* class Value.  mapVal is left out: no code reads or writes it.           *)

EmptyEnv == [n \in {} |-> 0]

ValueNone ==
    [type |-> "NONE", intVal |-> 0, floatVal |-> 0, stringVal |-> <<>>,
     boolVal |-> FALSE, listVal |-> <<>>, classInstance |-> <<>>,
     instanceVars |-> EmptyEnv]
ValueInt(v) == [ValueNone EXCEPT !.type = "INT", !.intVal = v]
ValueFloat(v) == [ValueNone EXCEPT !.type = "FLOAT", !.floatVal = v]
ValueString(v) == [ValueNone EXCEPT !.type = "STRING", !.stringVal = v]
ValueBool(v) == [ValueNone EXCEPT !.type = "BOOL", !.boolVal = v]

RECURSIVE toString(_)
toString(v) ==
    CASE v.type = "INT" -> IntToString(v.intVal)
      [] v.type = "FLOAT" -> FloatToString(v.floatVal)
      [] v.type = "STRING" -> v.stringVal
      [] v.type = "BOOL" ->
            IF v.boolVal THEN <<"t", "r", "u", "e">> ELSE <<"f", "a", "l", "s", "e">>
      [] v.type = "LIST" ->
            LET RECURSIVE items(_)
                items(k) ==
                    IF k > Len(v.listVal) THEN <<>>
                    ELSE toString(v.listVal[k])
                         \o (IF k < Len(v.listVal) THEN <<",", " ">> ELSE <<>>)
                         \o items(k + 1)
            IN <<"[">> \o items(1) \o <<"]">>
      [] OTHER -> <<"n", "o", "n", "e">>

toBool(v) ==
    CASE v.type = "BOOL" -> v.boolVal
      [] v.type = "INT" -> v.intVal # 0
      [] v.type = "FLOAT" -> v.floatVal # 0
      [] v.type = "STRING" -> v.stringVal # <<>>
      [] OTHER -> FALSE

----------------------------------------------------------------------------
(* The variable map, and the state an evaluation reads and writes:         *)
(* [variables, out, stdin, rng, classes, exc].  exc names the exception    *)
(* thrown and not caught ("" when none); nothing in the program catches.   *)

Has(vs, name) == name \in DOMAIN vs
Bind(vs, name, val) ==
    [n \in DOMAIN vs \cup {name} |-> IF n = name THEN val ELSE vs[n]]
Erase(vs, name) == [n \in DOMAIN vs \ {name} |-> vs[n]]

Ret(v, st) == [val |-> v, st |-> st]
Throw(st, what) == [val |-> ValueNone, st |-> [st EXCEPT !.exc = what]]
Failed(r) == r.st.exc # ""

\* Integer division of the machine: the quotient truncated toward zero.
TruncDiv(a, b) ==
    LET q == (IF a < 0 THEN 0 - a ELSE a) \div (IF b < 0 THEN 0 - b ELSE b)
    IN IF (a < 0) = (b < 0) THEN q ELSE 0 - q

evaluateComparison(left, op, right) ==
    IF left.type = "INT" /\ right.type = "INT"
    THEN ValueBool(CASE op = <<"=", "=">> -> left.intVal = right.intVal
                     [] op = <<"!", "=">> -> left.intVal # right.intVal
                     [] op = <<"<">> -> left.intVal < right.intVal
                     [] op = <<">">> -> left.intVal > right.intVal
                     [] op = <<"<", "=">> -> left.intVal <= right.intVal
                     [] op = <<">", "=">> -> left.intVal >= right.intVal
                     [] OTHER -> FALSE)
    ELSE IF left.type = "STRING" /\ right.type = "STRING" /\ op = <<"=", "=">>
    THEN ValueBool(left.stringVal = right.stringVal)
    ELSE ValueBool(FALSE)

\* The result is [ok, val]; ok is false for an integer division by zero,
\* which the machine traps.  A double division by zero is not modelled
\* (no infinity in the whole-thousandths representation): it traps too.
evaluateArithmetic(left, op, right) ==
    IF left.type = "INT" /\ right.type = "INT"
    THEN IF op = <<"/">> /\ right.intVal = 0
         THEN [ok |-> FALSE, val |-> ValueNone]
         ELSE [ok |-> TRUE,
               val |-> ValueInt(CASE op = <<"+">> -> left.intVal + right.intVal
                                  [] op = <<"-">> -> left.intVal - right.intVal
                                  [] op = <<"*">> -> left.intVal * right.intVal
                                  [] op = <<"/">> -> TruncDiv(left.intVal, right.intVal)
                                  [] OTHER -> 0)]
    ELSE IF left.type \in {"FLOAT", "INT"} /\ right.type \in {"FLOAT", "INT"}
    THEN LET l == IF left.type = "FLOAT" THEN left.floatVal ELSE left.intVal * FloatScale
             r == IF right.type = "FLOAT" THEN right.floatVal ELSE right.intVal * FloatScale
         IN IF op = <<"/">> /\ r = 0
            THEN [ok |-> FALSE, val |-> ValueNone]
            ELSE [ok |-> TRUE,
                  val |-> ValueFloat(CASE op = <<"+">> -> l + r
                                       [] op = <<"-">> -> l - r
                                       [] op = <<"*">> -> TruncDiv(l * r, FloatScale)
                                       [] op = <<"/">> -> TruncDiv(l * FloatScale, r)
                                       [] OTHER -> 0)]
    ELSE [ok |-> TRUE, val |-> ValueNone]

----------------------------------------------------------------------------
(* The expression evaluator.  Every operator takes the evaluation state    *)
(* and returns [val, st].                                                  *)

RECURSIVE SplitOn(_, _)
SplitOn(s, c) ==
    LET p == Find(s, <<c>>, 0)
    IN IF p = NPOS THEN <<s>>
       ELSE <<Substr(s, 0, p)>> \o SplitOn(SubstrFrom(s, p + 1), c)

\* The pieces `while (getline(ss, arg, ','))` yields: getline fails at the
\* end of the text, so no empty piece follows a trailing comma.
GetlineSplit(s) ==
    LET ps == SplitOn(s, ",")
    IN IF ps[Len(ps)] = <<>> THEN SubSeq(ps, 1, Len(ps) - 1) ELSE ps

UpperChars ==
    <<"A", "B", "C", "D", "E", "F", "G", "H", "I", "J", "K", "L", "M",
      "N", "O", "P", "Q", "R", "S", "T", "U", "V", "W", "X", "Y", "Z">>
LowerChars ==
    <<"a", "b", "c", "d", "e", "f", "g", "h", "i", "j", "k", "l", "m",
      "n", "o", "p", "q", "r", "s", "t", "u", "v", "w", "x", "y", "z">>
tolower(c) ==
    IF \E k \in 1..26 : UpperChars[k] = c
    THEN LowerChars[CHOOSE k \in 1..26 : UpperChars[k] = c]
    ELSE c

\* Reverse that leaves the first element where it is.
ReverseTail(s) ==
    IF s = <<>> THEN s ELSE <<s[1]>> \o [k \in 1..(Len(s) - 1) |-> s[Len(s) + 1 - k]]

Reverse(s) == [k \in 1..Len(s) |-> s[Len(s) + 1 - k]]

\* The escapes of parseStringLiteral, applied to the text between the quotes.
RECURSIVE Unescape(_)
Unescape(s) ==
    IF s = <<>> THEN <<>>
    ELSE IF s[1] = "\\" /\ Len(s) >= 2
    THEN (CASE s[2] = "n" -> <<"\n">>
            [] s[2] = "t" -> <<"\t">>
            [] s[2] = "\\" -> <<"\\">>
            [] s[2] = "\"" -> <<"\"">>
            [] OTHER -> <<s[1]>>) \o Unescape(SubSeq(s, 3, Len(s)))
    ELSE <<s[1]>> \o Unescape(Tail(s))

\* regex_search for \{([^}]+)\}: the leftmost `{` whose next `}` lies at
\* least two places on.  The result is [found, pos, len].
BraceMatch(s) ==
    LET opens == {p \in 0..(Len(s) - 1) :
                    /\ At(s, p) = "{"
                    /\ Find(s, <<"}">>, p + 1) # NPOS
                    /\ Find(s, <<"}">>, p + 1) >= p + 2}
        p0 == Min(opens)
    IN IF opens = {} THEN [found |-> FALSE, pos |-> 0, len |-> 0]
       ELSE [found |-> TRUE, pos |-> p0, len |-> Find(s, <<"}">>, p0 + 1) - p0 + 1]

\* IterItems with an integer counted from one.
IterItemsFromOne(iterable) ==
    CASE iterable.type = "LIST" -> iterable.listVal
      [] iterable.type = "STRING" ->
            [k \in 1..Len(iterable.stringVal) |-> ValueString(<<iterable.stringVal[k]>>)]
      [] iterable.type = "INT" -> [k \in 1..iterable.intVal |-> ValueInt(k)]
      [] OTHER -> <<>>

\* The elements a loop or a comprehension iterates over.
IterItems(iterable) ==
    CASE iterable.type = "LIST" -> iterable.listVal
      [] iterable.type = "STRING" ->
            [k \in 1..Len(iterable.stringVal) |-> ValueString(<<iterable.stringVal[k]>>)]
      [] iterable.type = "INT" -> [k \in 1..iterable.intVal |-> ValueInt(k - 1)]
      [] OTHER -> <<>>

\* ::round(val * multiplier) / multiplier on whole thousandths, for
\* multiplier = pow(10, d): halves are rounded away from zero.
RoundTo(v, d) ==
    LET unit == IF d >= FracDigits THEN 1 ELSE Pow10(FracDigits - d)
        mag == IF v < 0 THEN 0 - v ELSE v
        q == ((2 * mag) + unit) \div (2 * unit)
    IN IF v < 0 THEN 0 - (q * unit) ELSE q * unit

\* ceil(val) on whole thousandths.
Ceil(v) ==
    IF v % FloatScale = 0 THEN v ELSE ((v \div FloatScale) + 1) * FloatScale

\* sqrt on whole thousandths, rounded down; defined for v >= 0.
Sqrt(v) == CHOOSE r \in 0..(v + FloatScale) :
               r * r <= v * FloatScale /\ (r + 1) * (r + 1) > v * FloatScale


\* Operators below take the pieces the code keeps in local variables as
\* parameters, one operator per stretch of the function they come from.

RECURSIVE evaluateExpression(_, _)

\* evaluateExpression applied to both operands of one call, in the order
\* the build chose.  The result is [l, r, st].
Operands(first, second, firstIsLeft) ==
    IF firstIsLeft THEN [l |-> first.val, r |-> second.val, st |-> second.st]
    ELSE [l |-> second.val, r |-> first.val, st |-> second.st]

SecondOperand(first, other, firstIsLeft) ==
    IF Failed(first) THEN [l |-> ValueNone, r |-> ValueNone, st |-> first.st]
    ELSE Operands(first, evaluateExpression(other, first.st), firstIsLeft)

EvalOperands(a, b, st) ==
    IF argOrder = "ltr" THEN SecondOperand(evaluateExpression(a, st), b, TRUE)
    ELSE SecondOperand(evaluateExpression(b, st), a, FALSE)

RECURSIVE interpolate(_, _)

\* The text with the match replaced by the rendering of the value r.
Spliced(str, m, r) ==
    IF Failed(r) THEN r
    ELSE interpolate(Substr(str, 0, m.pos) \o toString(r.val)
                     \o SubstrFrom(str, m.pos + m.len), r.st)

InterpolateMatch(str, m, st) ==
    IF ~m.found THEN Ret(ValueString(str), st)
    ELSE Spliced(str, m, evaluateExpression(Substr(str, m.pos + 1, m.len - 2), st))

interpolate(str, st) == InterpolateMatch(str, BraceMatch(str), st)

parseStringLiteral(str, st) ==
    interpolate(Unescape(IF Len(str) >= 2 /\ str[1] = "\"" /\ str[Len(str)] = "\""
                         THEN Substr(str, 1, Len(str) - 2) ELSE str), st)

\* With no `:` after the `?`, the else branch is substr(npos + 1), the whole
\* expression again: the recursion does not end and the stack overflows.
TernaryBranch(expr, qpos, cpos, c) ==
    IF Failed(c) THEN c
    ELSE IF toBool(c.val)
    THEN evaluateExpression(Substr(expr, qpos + 1, cpos - qpos - 1), c.st)
    ELSE IF cpos = NPOS THEN Throw(c.st, "stack overflow")
    ELSE evaluateExpression(SubstrFrom(expr, cpos + 1), c.st)

TernaryAt(expr, qpos, st) ==
    TernaryBranch(expr, qpos, Find(expr, <<":">>, qpos),
                  evaluateExpression(Substr(expr, 0, qpos), st))

evaluateTernary(expr, st) == TernaryAt(expr, Find(expr, <<"?">>, 0), st)

RECURSIVE ComprehensionLoop(_, _, _, _, _)

LoopStep(items, varName, outputExpr, acc, r) ==
    IF Failed(r) THEN r
    ELSE ComprehensionLoop(Tail(items), varName, outputExpr, Append(acc, r.val), r.st)

\* The three loops of evaluateListComprehension, over the elements.
ComprehensionLoop(items, varName, outputExpr, acc, st) ==
    IF items = <<>> THEN Ret([ValueNone EXCEPT !.type = "LIST", !.listVal = acc], st)
    ELSE LoopStep(items, varName, outputExpr, acc,
                  evaluateExpression(outputExpr,
                      [st EXCEPT !.variables = Bind(@, varName, Head(items))]))

\* RestoreBinding without the restoration: the loops' last binding stays.
RestoreBindingKept(vs, varName, hadVar, oldVar) == vs

\* What evaluateListComprehension does with the variable once the loops end.
RestoreBinding(vs, varName, hadVar, oldVar) ==
    IF hadVar THEN Bind(vs, varName, oldVar) ELSE Erase(vs, varName)

Restored(varName, hadVar, oldVar, r) ==
    IF Failed(r) THEN r
    ELSE Ret(r.val, [r.st EXCEPT !.variables = RestoreBinding(@, varName, hadVar, oldVar)])

\* it is the evaluated iterable.
ComprehensionOver(varName, outputExpr, it) ==
    IF Failed(it) THEN it
    ELSE Restored(varName, Has(it.st.variables, varName),
                  IF Has(it.st.variables, varName) THEN it.st.variables[varName]
                  ELSE ValueNone,
                  ComprehensionLoop(IterItems(it.val), varName, outputExpr, <<>>, it.st))

\* The name in a declarator: what follows its first space, if it has one.
DeclaredName(varDecl) ==
    IF Find(varDecl, <<" ">>, 0) # NPOS
    THEN trim(SubstrFrom(varDecl, Find(varDecl, <<" ">>, 0) + 1))
    ELSE varDecl

ComprehensionParts(comprehension, forPos, inPos, st) ==
    IF SubstrThrows(comprehension, forPos + 5) \/ SubstrThrows(comprehension, inPos + 4)
    THEN Throw(st, "out_of_range")
    ELSE ComprehensionOver(
             DeclaredName(trim(Substr(comprehension, forPos + 5, inPos - forPos - 5))),
             trim(Substr(comprehension, 0, forPos)),
             evaluateExpression(trim(SubstrFrom(comprehension, inPos + 4)), st))

ComprehensionAt(comprehension, forPos, st) ==
    ComprehensionParts(comprehension, forPos, Find(comprehension, <<" ", "i", "n", " ">>, forPos), st)

ComprehensionText(comprehension, st) ==
    ComprehensionAt(comprehension, Find(comprehension, <<" ", "f", "o", "r", " ">>, 0), st)

evaluateListComprehension(expr, st) ==
    ComprehensionText(Substr(expr, Find(expr, <<"[">>, 0) + 1,
                             RFind(expr, <<"]">>) - Find(expr, <<"[">>, 0) - 1), st)

RECURSIVE EvalArgs(_, _, _)

ArgsStep(pieces, acc, r) ==
    IF Failed(r) THEN [args |-> acc, st |-> r.st]
    ELSE EvalArgs(Tail(pieces), Append(acc, r.val), r.st)

\* The loop that evaluates the arguments of a call: [args, st].
EvalArgs(pieces, acc, st) ==
    IF pieces = <<>> THEN [args |-> acc, st |-> st]
    ELSE ArgsStep(pieces, acc, evaluateExpression(trim(Head(pieces)), st))

RECURSIVE Concat(_)
Concat(ss) == IF ss = <<>> THEN <<>> ELSE Head(ss) \o Concat(Tail(ss))

\* Value(stoi(s)) and Value(stod(s)), p being what the parse gave.
ParsedInt(p, st) == IF p.ok THEN Ret(ValueInt(p.val), st) ELSE Throw(st, "stoi")
ParsedFloat(p, st) == IF p.ok THEN Ret(ValueFloat(p.val), st) ELSE Throw(st, "stod")

\* The first argument read as a double.
AsDouble(v) == IF v.type = "FLOAT" THEN v.floatVal ELSE v.intVal * FloatScale

\* The branch of evaluateFunctionCall for the name `int`.
CallInt(args, st) ==
    IF args # <<>> /\ args[1].type = "STRING" THEN ParsedInt(stoi(args[1].stringVal), st)
    ELSE IF args # <<>> /\ args[1].type = "FLOAT"
    THEN Ret(ValueInt(TruncDiv(args[1].floatVal, FloatScale)), st)
    ELSE IF args # <<>> /\ args[1].type = "BOOL"
    THEN Ret(ValueInt(IF args[1].boolVal THEN 1 ELSE 0), st)
    ELSE Ret(ValueInt(0), st)

\* The branch of evaluateFunctionCall for the name `float`.
CallFloat(args, st) ==
    IF args # <<>> /\ args[1].type = "INT"
    THEN Ret(ValueFloat(args[1].intVal * FloatScale), st)
    ELSE IF args # <<>> /\ args[1].type = "STRING"
    THEN ParsedFloat(stod(args[1].stringVal), st)
    ELSE Ret(ValueFloat(0), st)

\* The built-ins of evaluateFunctionCall, applied to the evaluated arguments.
CallBuiltin(funcName, args, st) ==
    IF funcName = <<"p", "r", "i", "n", "t">>
    THEN Ret(ValueNone,
             [st EXCEPT !.out = @ \o Concat([k \in 1..Len(args) |-> toString(args[k])])])
    ELSE IF funcName = <<"i", "n", "p", "u", "t">>
    THEN IF st.stdin = <<>> THEN Ret(ValueString(<<>>), st)
         ELSE Ret(ValueString(Head(st.stdin)), [st EXCEPT !.stdin = Tail(@)])
    ELSE IF funcName = <<"i", "n", "t">> THEN CallInt(args, st)
    ELSE IF funcName = <<"f", "l", "o", "a", "t">> THEN CallFloat(args, st)
    ELSE IF funcName = <<"b", "o", "o", "l">> THEN Ret(ValueBool(args # <<>> /\ toBool(args[1])), st)
    ELSE IF funcName = <<"r", "o", "u", "n", "d">> /\ Len(args) >= 2
    THEN Ret(ValueFloat(RoundTo(AsDouble(args[1]), args[2].intVal)), st)
    ELSE IF funcName = <<"c", "e", "i", "l">> /\ args # <<>>
    THEN Ret(ValueFloat(Ceil(AsDouble(args[1]))), st)
    ELSE IF funcName \in st.classes
    THEN Ret([ValueNone EXCEPT !.type = "CLASS_INSTANCE", !.classInstance = funcName], st)
    ELSE Ret(ValueNone, st)

\* ea is what the evaluation of the arguments gave.
Called(funcName, ea) ==
    IF ea.st.exc # "" THEN Ret(ValueNone, ea.st)
    ELSE CallBuiltin(funcName, ea.args, ea.st)

CallWith(funcName, argsStr, st) ==
    Called(funcName, IF argsStr = <<>> THEN [args |-> <<>>, st |-> st]
                     ELSE EvalArgs(GetlineSplit(argsStr), <<>>, st))

evaluateFunctionCall(expr, st) ==
    CallWith(trim(Substr(expr, 0, Find(expr, <<"(">>, 0))),
             Substr(expr, Find(expr, <<"(">>, 0) + 1,
                    RFind(expr, <<")">>) - Find(expr, <<"(">>, 0) - 1),
             st)

\* The slice of a string or a list from start to end, both ints; converted
\* to size_t a negative one is huge.  A list slice that starts below zero
\* reads outside the vector.
SliceRange(var, start, end, st) ==
    IF var.type = "STRING"
    THEN IF SubstrThrows(var.stringVal, start) THEN Throw(st, "out_of_range")
         ELSE Ret(ValueString(Substr(var.stringVal, start, end - start)), st)
    ELSE IF start < 0 /\ start < end /\ start < Len(var.listVal)
    THEN Throw(st, "out-of-bounds read")
    ELSE Ret([ValueNone EXCEPT
                 !.type = "LIST",
                 !.listVal = SubSeq(var.listVal, start + 1,
                                    IF end < Len(var.listVal) THEN end
                                    ELSE Len(var.listVal))], st)

\* start and end as stoi gave them, [ok, val] each.
SliceBounds(var, s, e, st) ==
    IF ~s.ok \/ ~e.ok THEN Throw(st, "stoi") ELSE SliceRange(var, s.val, e.val, st)

SliceStart(parts) == IF parts[1] = <<>> THEN [ok |-> TRUE, val |-> 0] ELSE stoi(parts[1])
SliceEnd(var, parts) ==
    IF parts[2] = <<>>
    THEN [ok |-> TRUE,
          val |-> IF var.type = "STRING" THEN Len(var.stringVal) ELSE Len(var.listVal)]
    ELSE stoi(parts[2])

\* Whether the slice branch returns or throws for this variable, rather
\* than falling through to the index branch.
SliceEnds(var, parts) ==
    \/ var.type \in {"STRING", "LIST"}
    \/ ~SliceStart(parts).ok
    \/ ~SliceEnd(var, parts).ok

IsReverse(parts) ==
    Len(parts) = 3 /\ parts[1] = <<>> /\ parts[2] = <<>> /\ parts[3] = <<"-", "1">>

Reversed(var, st) ==
    IF var.type = "STRING" THEN Ret(ValueString(Reverse(var.stringVal)), st)
    ELSE Ret([ValueNone EXCEPT !.type = "LIST", !.listVal = Reverse(var.listVal)], st)

\* idx = size + index for a negative index.  The sum is formed in size_t and
\* converted to int, which for the sizes and indices of the checked
\* programs is the mathematical sum.
\* IndexOf without the wrap of a negative index.
IndexOfAsGiven(size, index) == index

IndexOf(size, index) == IF index < 0 THEN size + index ELSE index

\* The element of var at index, for a list or a string and an int index.
ElementAt(var, index, st) ==
    IF /\ var.type = "LIST" /\ index.type = "INT"
       /\ IndexOf(Len(var.listVal), index.intVal) >= 0
       /\ IndexOf(Len(var.listVal), index.intVal) < Len(var.listVal)
    THEN Ret(var.listVal[IndexOf(Len(var.listVal), index.intVal) + 1], st)
    ELSE IF /\ var.type = "STRING" /\ index.type = "INT"
            /\ IndexOf(Len(var.stringVal), index.intVal) >= 0
            /\ IndexOf(Len(var.stringVal), index.intVal) < Len(var.stringVal)
    THEN Ret(ValueString(<<var.stringVal[IndexOf(Len(var.stringVal), index.intVal) + 1]>>),
             st)
    ELSE Ret(ValueNone, st)

\* ix is the evaluated index expression.
Indexed(varName, ix) ==
    IF Failed(ix) THEN ix
    ELSE IF Has(ix.st.variables, varName)
    THEN ElementAt(ix.st.variables[varName], ix.val, ix.st)
    ELSE Ret(ValueNone, ix.st)

ArrayAccessParts(varName, indexExpr, parts, st) ==
    IF /\ Contains(indexExpr, <<":">>) /\ Has(st.variables, varName) /\ IsReverse(parts)
       /\ st.variables[varName].type \in {"STRING", "LIST"}
    THEN Reversed(st.variables[varName], st)
    ELSE IF /\ Contains(indexExpr, <<":">>) /\ Has(st.variables, varName) /\ Len(parts) >= 2
            /\ SliceEnds(st.variables[varName], parts)
    THEN SliceBounds(st.variables[varName], SliceStart(parts),
                     SliceEnd(st.variables[varName], parts), st)
    ELSE Indexed(varName, evaluateExpression(indexExpr, st))

ArrayAccessIndex(varName, indexExpr, st) ==
    ArrayAccessParts(varName, indexExpr, SplitOn(indexExpr, ":"), st)

evaluateArrayAccess(expr, st) ==
    ArrayAccessIndex(trim(Substr(expr, 0, Find(expr, <<"[">>, 0))),
                     Substr(expr, Find(expr, <<"[">>, 0) + 1,
                            RFind(expr, <<"]">>) - Find(expr, <<"[">>, 0) - 1),
                     st)

\* The text between the first `(` and the first `)` of a member.
MemberArg(member) ==
    Substr(member, Find(member, <<"(">>, 0) + 1,
           Find(member, <<")">>, 0) - (Find(member, <<"(">>, 0) + 1))

RECURSIVE SumOf(_)
SumOf(list) ==
    IF list = <<>> THEN 0
    ELSE (IF Head(list).type = "INT" THEN Head(list).intVal
          ELSE IF Head(list).type = "BOOL" /\ Head(list).boolVal THEN 1 ELSE 0)
         + SumOf(Tail(list))

\* obj.listVal.push_back(arg), arg being the evaluated argument.
Pushed(objName, arg) ==
    IF Failed(arg) THEN arg
    ELSE Ret(ValueNone,
             [arg.st EXCEPT !.variables =
                 [@ EXCEPT ![objName].listVal = Append(@, arg.val)]])

SqrtOf(arg) ==
    IF Failed(arg) THEN arg
    ELSE Ret(ValueFloat(Sqrt(IF arg.val.type = "INT" THEN arg.val.intVal * FloatScale
                             ELSE arg.val.floatVal)), arg.st)

\* The members evaluateMemberAccess knows of a list.
IsListMember(member) ==
    member \in {<<"l", "e", "n", "(", ")">>, <<"l", "e", "n">>, <<"s", "u", "m", "(", ")">>, <<"s", "u", "m">>} \/ Contains(member, <<"a", "p", "p", "e", "n", "d", "(">>)

\* The branches of evaluateMemberAccess for a bound object of list type.
ListMember(objName, obj, member, st) ==
    IF member \in {<<"l", "e", "n", "(", ")">>, <<"l", "e", "n">>} THEN Ret(ValueInt(Len(obj.listVal)), st)
    ELSE IF member \in {<<"s", "u", "m", "(", ")">>, <<"s", "u", "m">>} THEN Ret(ValueInt(SumOf(obj.listVal)), st)
    ELSE Pushed(objName, evaluateExpression(MemberArg(member), st))

\* The branches of evaluateMemberAccess that do not depend on a binding.
\* The generator's bits are st.rng, those still to be drawn.
ModuleMember(objName, member, st) ==
    IF objName = <<"m", "a", "t", "h">> /\ Contains(member, <<"s", "q", "r", "t", "(">>)
    THEN SqrtOf(evaluateExpression(MemberArg(member), st))
    ELSE IF objName = <<"r", "a", "n", "d", "o", "m">> /\ Contains(member, <<"r", "n", "g", "(">>)
    THEN Ret(ValueInt(Head(st.rng)), [st EXCEPT !.rng = Tail(@)])
    ELSE Ret(ValueNone, st)

MemberOf(objName, member, st) ==
    IF /\ Has(st.variables, objName) /\ st.variables[objName].type = "STRING"
       /\ Contains(member, <<"l", "o", "w", "e", "r">>)
    THEN Ret(ValueString([k \in 1..Len(st.variables[objName].stringVal) |->
                             tolower(st.variables[objName].stringVal[k])]), st)
    ELSE IF /\ Has(st.variables, objName) /\ st.variables[objName].type = "LIST"
            /\ IsListMember(member)
    THEN ListMember(objName, st.variables[objName], member, st)
    ELSE IF /\ Has(st.variables, objName)
            /\ st.variables[objName].type = "CLASS_INSTANCE"
            /\ member \in DOMAIN st.variables[objName].instanceVars
    THEN Ret(st.variables[objName].instanceVars[member], st)
    ELSE ModuleMember(objName, member, st)

evaluateMemberAccess(expr, st) ==
    MemberOf(trim(Substr(expr, 0, Find(expr, <<".">>, 0))),
             trim(SubstrFrom(expr, Find(expr, <<".">>, 0) + 1)), st)

CmpOps == << <<"=", "=">>, <<"!", "=">>, <<"<", "=">>, <<">", "=">> >>
OrdOps == << <<"<">>, <<">">> >>
\* ArithOps with the subtraction tried before the addition.
ArithOpsMinusFirst == << <<"-">>, <<"+">>, <<"*">>, <<"/">> >>
ArithOps == << <<"+">>, <<"-">>, <<"*">>, <<"/">> >>

\* The operators of each loop of evaluateExpression that its test accepts.
CmpHits(expr) == {k \in 1..4 : Find(expr, CmpOps[k], 0) > 0}
OrdHits(expr) ==
    {k \in 1..2 : /\ Find(expr, OrdOps[k], 0) > 0
                  /\ \/ Find(expr, OrdOps[k], 0) + 1 >= Len(expr)
                     \/ At(expr, Find(expr, OrdOps[k], 0) + 1) # "="}
ArithHits(expr) ==
    {k \in 1..4 : RFind(expr, ArithOps[k]) > 0 /\ RFind(expr, ArithOps[k]) < Len(expr) - 1}

\* Value(l.toBool() || evaluateExpression(rhs).toBool()), l evaluated.
AsBool(r) == IF Failed(r) THEN r ELSE Ret(ValueBool(toBool(r.val)), r.st)
OrRest(l, rhs) ==
    IF Failed(l) THEN l
    ELSE IF toBool(l.val) THEN Ret(ValueBool(TRUE), l.st)
    ELSE AsBool(evaluateExpression(rhs, l.st))
AndRest(l, rhs) ==
    IF Failed(l) THEN l
    ELSE IF ~toBool(l.val) THEN Ret(ValueBool(FALSE), l.st)
    ELSE AsBool(evaluateExpression(rhs, l.st))

\* o is the pair of evaluated operands.
Compared(op, o) ==
    IF o.st.exc # "" THEN Ret(ValueNone, o.st)
    ELSE Ret(evaluateComparison(o.l, op, o.r), o.st)
Computed(a, o) ==
    IF o.st.exc # "" THEN Ret(ValueNone, o.st)
    ELSE IF ~a.ok THEN Throw(o.st, "SIGFPE")
    ELSE Ret(a.val, o.st)
Calculated(op, o) == Computed(evaluateArithmetic(o.l, op, o.r), o)

CompareAt(expr, op, pos, st) ==
    Compared(op, EvalOperands(trim(Substr(expr, 0, pos)),
                              trim(SubstrFrom(expr, pos + Len(op))), st))
ArithmeticAt(expr, op, pos, st) ==
    Calculated(op, EvalOperands(Substr(expr, 0, pos), SubstrFrom(expr, pos + 1), st))

\* Value(stoi(expr)) for an integer literal.
IntLiteral(p, st) ==
    IF p.ok THEN Ret(ValueInt(p.val), st) ELSE Throw(st, "out_of_range")

\* The operator loops and the look-up that end evaluateExpression.
EvalOperators(expr, st) ==
    IF CmpHits(expr) # {}
    THEN CompareAt(expr, CmpOps[Min(CmpHits(expr))],
                   Find(expr, CmpOps[Min(CmpHits(expr))], 0), st)
    ELSE IF OrdHits(expr) # {}
    THEN CompareAt(expr, OrdOps[Min(OrdHits(expr))],
                   Find(expr, OrdOps[Min(OrdHits(expr))], 0), st)
    ELSE IF ArithHits(expr) # {}
    THEN ArithmeticAt(expr, ArithOps[Min(ArithHits(expr))],
                      RFind(expr, ArithOps[Min(ArithHits(expr))]), st)
    ELSE IF Has(st.variables, expr) THEN Ret(st.variables[expr], st)
    ELSE Ret(ValueNone, st)

\* evaluateExpression after the trim of its argument.
EvalTrimmed(expr, st) ==
    IF Len(expr) >= 2 /\ expr[1] = "\"" /\ expr[Len(expr)] = "\""
    THEN parseStringLiteral(expr, st)
    ELSE IF expr = <<"t", "r", "u", "e">> THEN Ret(ValueBool(TRUE), st)
    ELSE IF expr = <<"f", "a", "l", "s", "e">> THEN Ret(ValueBool(FALSE), st)
    ELSE IF IsIntLiteral(expr) THEN IntLiteral(stoi(expr), st)
    ELSE IF IsFloatLiteral(expr) THEN Ret(ValueFloat(stod(expr).val), st)
    ELSE IF Contains(expr, <<"[">>) /\ Contains(expr, <<" ", "f", "o", "r", " ">>)
    THEN evaluateListComprehension(expr, st)
    ELSE IF Contains(expr, <<"(">>) /\ ~Contains(expr, <<"[">>)
    THEN evaluateFunctionCall(expr, st)
    ELSE IF Contains(expr, <<"[">>) /\ Contains(expr, <<"]">>) /\ ~Contains(expr, <<" ", "f", "o", "r", " ">>)
    THEN evaluateArrayAccess(expr, st)
    ELSE IF Contains(expr, <<".">>) THEN evaluateMemberAccess(expr, st)
    ELSE IF Contains(expr, <<"?">>) /\ Contains(expr, <<":">>) THEN evaluateTernary(expr, st)
    ELSE IF Find(expr, <<" ", "o", "r", " ">>, 0) # NPOS
    THEN OrRest(evaluateExpression(Substr(expr, 0, Find(expr, <<" ", "o", "r", " ">>, 0)), st),
                SubstrFrom(expr, Find(expr, <<" ", "o", "r", " ">>, 0) + 4))
    ELSE IF Find(expr, <<" ", "a", "n", "d", " ">>, 0) # NPOS
    THEN AndRest(evaluateExpression(Substr(expr, 0, Find(expr, <<" ", "a", "n", "d", " ">>, 0)), st),
                 SubstrFrom(expr, Find(expr, <<" ", "a", "n", "d", " ">>, 0) + 5))
    ELSE EvalOperators(expr, st)

evaluateExpression(expr, st) == EvalTrimmed(trim(expr), st)

----------------------------------------------------------------------------
(* The statement executor.                                                 *)

\* \s of the regular expressions.
RegexSpace == {" ", "\t", "\n", "\r", "\f"}

\* (\w+)\s*=\s*(.+) matched against the whole of s.  \w+ and the first \s*
\* take all they can (what follows them cannot be a word character or
\* white space); the second \s* gives back white space until .+, which
\* takes no line terminator, matches the rest.  The result is [ok, name, expr].
NoMatch == [ok |-> FALSE, name |-> <<>>, expr |-> <<>>]

\* The offsets into r3, the text after `=`, at which (.+) can start.
ExprStarts(r3) ==
    {k \in 0..PrefixLen(r3, RegexSpace) :
        /\ k < Len(r3)
        /\ \A j \in (k + 1)..Len(r3) : r3[j] \notin {"\n", "\r"}}

AssignExpr(name, r3) ==
    IF ExprStarts(r3) = {} THEN NoMatch
    ELSE [ok |-> TRUE, name |-> name, expr |-> SubstrFrom(r3, Max(ExprStarts(r3)))]

\* r2 is the text after the name and the white space that follows it.
AssignSign(name, r2) ==
    IF r2 # <<>> /\ r2[1] = "=" THEN AssignExpr(name, Tail(r2)) ELSE NoMatch

AssignName(s, w) ==
    IF w >= 1
    THEN AssignSign(Substr(s, 0, w),
                    SubstrFrom(s, w + PrefixLen(SubstrFrom(s, w), RegexSpace)))
    ELSE NoMatch

MatchAssign(s) == AssignName(s, PrefixLen(s, WordChars))

DeclTypes == << <<"i", "n", "t">>, <<"f", "l", "o", "a", "t">>, <<"s", "t", "r">>, <<"b", "o", "o", "l">>, <<"m", "a", "p">> >>
DeclTypes2 == << <<"i", "n", "t">>, <<"f", "l", "o", "a", "t">>, <<"s", "t", "r">>, <<"b", "o", "o", "l">>, <<"m", "a", "p">>, <<"s", "t", "r", "[", "]">>, <<"b", "o", "o", "l", "[", "]">> >>

\* What follows the type word t and the white space \s+ takes after it;
\* the empty text when there is no white space.
AfterType(s, t) ==
    IF Find(s, t, 0) = 0 /\ PrefixLen(SubstrFrom(s, Len(t)), RegexSpace) >= 1
    THEN SubstrFrom(s, Len(t) + PrefixLen(SubstrFrom(s, Len(t)), RegexSpace))
    ELSE <<>>

\* (int|float|str|bool|map)\s+(\w+)\s*=\s*(.+): [ok, name, expr].
DeclHits(s) == {k \in 1..Len(DeclTypes) : MatchAssign(AfterType(s, DeclTypes[k])).ok}
MatchDecl(s) ==
    IF DeclHits(s) = {} THEN NoMatch
    ELSE MatchAssign(AfterType(s, DeclTypes[Min(DeclHits(s))]))

\* (int|float|str|bool|map|str\[\]|bool\[\])\s+(\w+): [ok, type, name].
Decl2Hits(s) ==
    {k \in 1..Len(DeclTypes2) :
        /\ AfterType(s, DeclTypes2[k]) # <<>>
        /\ PrefixLen(AfterType(s, DeclTypes2[k]), WordChars)
              = Len(AfterType(s, DeclTypes2[k]))}
MatchDecl2(s) ==
    IF Decl2Hits(s) = {} THEN [ok |-> FALSE, type |-> <<>>, name |-> <<>>]
    ELSE [ok |-> TRUE, type |-> DeclTypes2[Min(Decl2Hits(s))],
          name |-> AfterType(s, DeclTypes2[Min(Decl2Hits(s))])]

\* (\w+)\.(\w+)\s*=\s*(.+): [ok, obj, field, expr].
MemberAssignAt(s, w) ==
    IF w >= 1 /\ Len(s) > w /\ s[w + 1] = "." /\ MatchAssign(SubstrFrom(s, w + 1)).ok
    THEN [ok |-> TRUE, obj |-> Substr(s, 0, w),
          field |-> MatchAssign(SubstrFrom(s, w + 1)).name,
          expr |-> MatchAssign(SubstrFrom(s, w + 1)).expr]
    ELSE [ok |-> FALSE, obj |-> <<>>, field |-> <<>>, expr |-> <<>>]
MatchMemberAssign(s) == MemberAssignAt(s, PrefixLen(s, WordChars))

\* variables[name] = <the value of an evaluation>
Assign(name, r) ==
    IF Failed(r) THEN r.st ELSE [r.st EXCEPT !.variables = Bind(@, name, r.val)]

\* The value a declaration without initialiser binds.
ZeroOf(type) ==
    IF type = <<"m", "a", "p">> THEN [ValueNone EXCEPT !.type = "MAP"]
    ELSE IF Contains(type, <<"[", "]">>) THEN [ValueNone EXCEPT !.type = "LIST"]
    ELSE IF type = <<"i", "n", "t">> THEN ValueInt(0)
    ELSE ValueNone

\* variables[obj].instanceVars[field] = <the value of an evaluation>
MemberAssigned(obj, field, r) ==
    IF Failed(r) THEN r.st
    ELSE [r.st EXCEPT !.variables =
             [@ EXCEPT ![obj].instanceVars = Bind(@, field, r.val)]]

\* variables[varName].intVal *= val.intVal, val being the evaluated operand
Multiplied(varName, val) ==
    IF Failed(val) THEN val.st
    ELSE IF /\ Has(val.st.variables, varName)
            /\ val.st.variables[varName].type = "INT"
            /\ val.val.type = "INT"
    THEN [val.st EXCEPT !.variables =
             [@ EXCEPT ![varName].intVal = @ * val.val.intVal]]
    ELSE val.st

Incremented(varName, st) ==
    IF Has(st.variables, varName) /\ st.variables[varName].type = "INT"
    THEN [st EXCEPT !.variables = [@ EXCEPT ![varName].intVal = @ + 1]]
    ELSE st

\* The statement shapes that follow the plain assignment.
ExecOther(stmt, m, st) ==
    IF m.ok
    THEN IF Has(st.variables, m.obj) /\ st.variables[m.obj].type = "CLASS_INSTANCE"
         THEN MemberAssigned(m.obj, m.field, evaluateExpression(m.expr, st))
         ELSE st
    ELSE IF Find(stmt, <<"+", "+">>, 0) # NPOS
    THEN Incremented(trim(Substr(stmt, 0, Find(stmt, <<"+", "+">>, 0))), st)
    ELSE IF Find(stmt, <<"*", "=">>, 0) # NPOS
    THEN Multiplied(trim(Substr(stmt, 0, Find(stmt, <<"*", "=">>, 0))),
                    evaluateExpression(SubstrFrom(stmt, Find(stmt, <<"*", "=">>, 0) + 2), st))
    ELSE IF Contains(stmt, <<"(">>) THEN evaluateFunctionCall(stmt, st).st
    ELSE st

\* d1, d2 and a are the matches of the first three patterns.
ExecMatched(stmt, d1, d2, a, st) ==
    IF d1.ok THEN Assign(d1.name, evaluateExpression(d1.expr, st))
    ELSE IF d2.ok THEN [st EXCEPT !.variables = Bind(@, d2.name, ZeroOf(d2.type))]
    ELSE IF a.ok THEN Assign(a.name, evaluateExpression(a.expr, st))
    ELSE ExecOther(stmt, MatchMemberAssign(stmt), st)

ExecTrimmed(stmt, st) ==
    IF stmt = <<>> THEN st
    ELSE ExecMatched(stmt, MatchDecl(stmt), MatchDecl2(stmt), MatchAssign(stmt), st)

\* The result is the evaluation state after the statement.
executeStatement(line, st) == ExecTrimmed(trim(removeComments(line)), st)

----------------------------------------------------------------------------
(* The program loader and the entry dispatcher.                            *)

\* The scan of a class body in loadProgram: the index it stops at.
RECURSIVE SkipClassBody(_, _, _)
SkipClassBody(lines, i, braceCount) ==
    IF i < Len(lines) /\ braceCount > 0
    THEN LET classLine == lines[i + 1]
             opened == IF Contains(classLine, <<"{">>) THEN braceCount + 1 ELSE braceCount
             closed == IF Contains(classLine, <<"}">>) THEN opened - 1 ELSE opened
         IN IF Contains(classLine, <<"}">>) /\ closed = 0 THEN i
            ELSE SkipClassBody(lines, i + 1, closed)
    ELSE i

\* The parse loop of loadProgram from line i on: [mainClass, classes].
RECURSIVE ParseProgram(_, _, _, _)
ParseProgram(lines, i, mc, cls) ==
    IF i >= Len(lines) THEN [mainClass |-> mc, classes |-> cls]
    ELSE LET ln == trim(removeComments(lines[i + 1]))
             mc1 == IF Find(ln, <<"$">>, 0) = 0 THEN trim(SubstrFrom(ln, 1)) ELSE mc
             nameEnd0 == Find(ln, <<" ", "{">>, 0)
             nameEnd == IF nameEnd0 = NPOS THEN Find(ln, <<"{">>, 0) ELSE nameEnd0
             className == trim(Substr(ln, 6, nameEnd - 6))
         IN IF Find(ln, <<"#">>, 0) = 0 \/ Find(ln, <<"@">>, 0) = 0
            THEN ParseProgram(lines, i + 1, mc1, cls)
            ELSE IF Find(ln, <<"c", "l", "a", "s", "s", " ">>, 0) = 0
            THEN ParseProgram(lines, SkipClassBody(lines, i + 1, 1) + 1, mc1,
                              cls \cup {className})
            ELSE ParseProgram(lines, i + 1, mc1, cls)

\* run(): the search for the `{` that opens a function body, from line i.
RECURSIVE FnOpen(_, _)
FnOpen(lines, i) ==
    IF i < Len(lines)
    THEN IF Contains(lines[i + 1], <<"{">>) THEN [i |-> i, fnBraceCount |-> 1]
         ELSE FnOpen(lines, i + 1)
    ELSE [i |-> i, fnBraceCount |-> 0]

\* run(): the scan to the end of the function body; the index it stops at.
RECURSIVE FnClose(_, _, _)
FnClose(lines, i, fnBraceCount) ==
    IF i < Len(lines) /\ fnBraceCount > 0
    THEN LET opened == IF Contains(lines[i + 1], <<"{">>) THEN fnBraceCount + 1
                       ELSE fnBraceCount
             closed == IF Contains(lines[i + 1], <<"}">>) THEN opened - 1 ELSE opened
         IN FnClose(lines, i + 1, closed)
    ELSE i

\* run(): the lines of the entry class handed to executeBlock, collected
\* from line i on.
RECURSIVE MainBody(_, _, _, _)
MainBody(lines, i, braceCount, acc) ==
    IF i < Len(lines) /\ braceCount > 0
    THEN LET classLine == lines[i + 1]
             opened == IF Contains(classLine, <<"{">>) THEN braceCount + 1 ELSE braceCount
             closed == IF Contains(classLine, <<"}">>) THEN opened - 1 ELSE opened
             fo == FnOpen(lines, i)
         IN IF Contains(classLine, <<"}">>) /\ closed = 0 THEN acc
            ELSE IF Find(trim(removeComments(classLine)), <<"f", "n", " ">>, 0) # 0
            THEN MainBody(lines, i + 1, closed, Append(acc, classLine))
            ELSE MainBody(lines, FnClose(lines, fo.i + 1, fo.fnBraceCount), closed, acc)
    ELSE acc

\* run(): the body of the first class whose header begins with
\* "class " + mainClass.
ExtractMainClassBody(lines, mc) ==
    LET heads == {i \in 0..(Len(lines) - 1) :
                    Find(trim(removeComments(lines[i + 1])), <<"c", "l", "a", "s", "s", " ">> \o mc, 0) = 0}
    IN IF heads = {} THEN <<>> ELSE MainBody(lines, Min(heads) + 1, 1, <<>>)

----------------------------------------------------------------------------
(* The program files the interpreter is run on.  A file is named by a      *)
(* descriptor [kind, a, b, c, d]; FileLines gives its lines.               *)

Desc(kind, a, b, c, d) == [kind |-> kind, a |-> a, b |-> b, c |-> c, d |-> d]

\* The text the string containers are cut from.
Abc == <<"a", "b", "c", "d", "e", "f", "g", "h">>
Quoted(s) == <<"\"">> \o s \o <<"\"">>

\* $Main / class Main { / <body> / }
InMain(body) == <<<<"$", "M", "a", "i", "n">>, <<"c", "l", "a", "s", "s", " ", "M", "a", "i", "n", " ", "{">>>> \o body \o <<<<"}">>>>

\* A block head with its `{` on the head's line (layout 0) or on a line of
\* its own (layout 1).
BlockHead(head, layout) == IF layout = 0 THEN <<head \o <<" ", "{">>>> ELSE <<head, <<"{">>>>

\* for (int i in <a>) { print(i) ... }, c body lines, layout b
ForLines(p) ==
    InMain(BlockHead(<<"f", "o", "r", " ", "(", "i", "n", "t", " ", "i", " ", "i", "n", " ">> \o IntToString(p.a) \o <<")">>, p.b)
           \o [k \in 1..p.c |-> <<"p", "r", "i", "n", "t", "(", "i", ")">>]
           \o <<<<"}">>, <<"p", "r", "i", "n", "t", "(", "\"", "e", "\"", ")">>>>)

\* int a = <a> / int b = <b> / int c = <c> / int r = a-b+c
ArithLines(p) ==
    InMain(<<<<"i", "n", "t", " ", "a", " ", "=", " ">> \o IntToString(p.a), <<"i", "n", "t", " ", "b", " ", "=", " ">> \o IntToString(p.b),
             <<"i", "n", "t", " ", "c", " ", "=", " ">> \o IntToString(p.c), <<"i", "n", "t", " ", "r", " ", "=", " ", "a", "-", "b", "+", "c">>>>)

\* str[] xs / xs.append(<a>) or r = xs.append(<a>) / int n = xs.len
AppendLines(p) ==
    InMain(<<<<"s", "t", "r", "[", "]", " ", "x", "s">>,
             (IF p.b = 0 THEN <<>> ELSE <<"r", " ", "=", " ">>) \o <<"x", "s", ".", "a", "p", "p", "e", "n", "d", "(">> \o IntToString(p.a) \o <<")">>,
             <<"i", "n", "t", " ", "n", " ", "=", " ", "x", "s", ".", "l", "e", "n">>>>)

\* The iterable of a comprehension program: its set-up lines and its text.
\* a = 0: the integer b; a = 1: a string of length b; a = 2: the list
\* 0..b-1; a = 3: a boolean, a floating value or an unbound name.
IterSetup(p) ==
    CASE p.a = 1 -> <<<<"s", "t", "r", " ", "s", " ", "=", " ">> \o Quoted(SubSeq(Abc, 1, p.b))>>
      [] p.a = 2 -> <<<<"s", " ", "=", " ", "[", "k", " ", "f", "o", "r", " ", "i", "n", "t", " ", "k", " ", "i", "n", " ">> \o IntToString(p.b) \o <<"]">>>>
      [] OTHER -> <<>>
IterText(p) ==
    CASE p.a = 0 -> IntToString(p.b)
      [] p.a = 3 -> (CASE p.b = 0 -> <<"t", "r", "u", "e">> [] p.b = 1 -> <<"1", ".", "5">> [] OTHER -> <<"n", "o", "t", "h", "i", "n", "g">>)
      [] OTHER -> <<"s">>
OutText(p) == IF p.c = 0 THEN <<"i">> ELSE <<"i", "*", "2">>

\* [int i = 7 /] xs = [<out> for int i in <iter>] / print(xs)
ComprLines(p) ==
    InMain(IterSetup(p)
           \o (IF p.d = 1 THEN <<<<"i", "n", "t", " ", "i", " ", "=", " ", "7">>>> ELSE <<>>)
           \o <<<<"x", "s", " ", "=", " ", "[">> \o OutText(p) \o <<" ", "f", "o", "r", " ", "i", "n", "t", " ", "i", " ", "i", "n", " ">> \o IterText(p) \o <<"]">>,
                <<"p", "r", "i", "n", "t", "(", "x", "s", ")">>>>)

\* Files with several classes and with function definitions.
ClassLines(p) ==
    CASE p.a = 0 ->
            <<<<"$", "M", "a", "i", "n">>, <<"c", "l", "a", "s", "s", " ", "O", "t", "h", "e", "r", " ", "{">>, <<"p", "r", "i", "n", "t", "(", "\"", "o", "\"", ")">>, <<"}">>,
              <<"c", "l", "a", "s", "s", " ", "M", "a", "i", "n", " ", "{">>, <<"p", "r", "i", "n", "t", "(", "\"", "m", "\"", ")">>, <<>>, <<"r", "e", "t", "u", "r", "n">>, <<"p", "r", "i", "n", "t", "(", "\"", "n", "\"", ")", " ", "/", "/", " ", "e", "n", "d">>, <<"}">>,
              <<"c", "l", "a", "s", "s", " ", "L", "a", "s", "t", " ", "{">>, <<"p", "r", "i", "n", "t", "(", "\"", "l", "\"", ")">>, <<"}">>>>
      [] p.a = 1 ->
            <<<<"$", "M", "a", "i", "n">>, <<"c", "l", "a", "s", "s", " ", "M", "a", "i", "n", " ", "{">>, <<"f", "n", " ", "f", "(", ")", " ", "{">>, <<"p", "r", "i", "n", "t", "(", "\"", "f", "\"", ")">>, <<"}">>, <<"p", "r", "i", "n", "t", "(", "\"", "m", "\"", ")">>, <<"}">>>>
      [] p.a = 2 ->
            <<<<"$", "M", "a", "i", "n">>, <<"c", "l", "a", "s", "s", " ", "M", "a", "i", "n", " ", "{">>, <<"f", "n", " ", "f", "(", ")", " ", "{">>, <<"p", "r", "i", "n", "t", "(", "\"", "f", "\"", ")">>, <<"}">>, <<"p", "r", "i", "n", "t", "(", "\"", "m", "\"", ")">>, <<"}">>,
              <<"c", "l", "a", "s", "s", " ", "O", "t", "h", "e", "r", " ", "{">>, <<"p", "r", "i", "n", "t", "(", "\"", "o", "\"", ")">>, <<"}">>>>
      [] p.a = 3 ->
            <<<<"$", "M", "a", "i", "n">>, <<"c", "l", "a", "s", "s", " ", "M", "a", "i", "n", "M", "e", "n", "u", " ", "{">>, <<"p", "r", "i", "n", "t", "(", "\"", "o", "\"", ")">>, <<"}">>,
              <<"c", "l", "a", "s", "s", " ", "M", "a", "i", "n", " ", "{">>, <<"p", "r", "i", "n", "t", "(", "\"", "m", "\"", ")">>, <<"}">>>>
      [] OTHER ->
            <<<<"#", " ", "l", "i", "b">>, <<"$", "M", "a", "i", "n">>, <<"c", "l", "a", "s", "s", " ", "M", "a", "i", "n", " ", "{">>, <<"p", "r", "i", "n", "t", "(", "\"", "m", "\"", ")">>, <<"}">>,
              <<"c", "l", "a", "s", "s", " ", "M", "a", "i", "n", "M", "e", "n", "u", " ", "{">>, <<"p", "r", "i", "n", "t", "(", "\"", "o", "\"", ")">>, <<"}">>>>

\* The top-level lines of the body of class Main in those files.
ClassTopLevel(p) ==
    IF p.a = 0 THEN <<<<"p", "r", "i", "n", "t", "(", "\"", "m", "\"", ")">>, <<>>, <<"r", "e", "t", "u", "r", "n">>, <<"p", "r", "i", "n", "t", "(", "\"", "n", "\"", ")", " ", "/", "/", " ", "e", "n", "d">>>>
    ELSE <<<<"p", "r", "i", "n", "t", "(", "\"", "m", "\"", ")">>>>

\* The text converted by a conversion program.
ConvTexts == << <<>>, <<"a", "b", "c">>, <<"1", "2">>, <<"1", ".", "5">> >>
\* str s = "<text b>" / y = int(s) or y = float(s) / print("k")
ConvLines(p) ==
    InMain(<<<<"s", "t", "r", " ", "s", " ", "=", " ">> \o Quoted(ConvTexts[p.b]),
             <<"y", " ", "=", " ">> \o (IF p.a = 0 THEN <<"i", "n", "t">> ELSE <<"f", "l", "o", "a", "t">>) \o <<"(", "s", ")">>,
             <<"p", "r", "i", "n", "t", "(", "\"", "k", "\"", ")">>>>)

\* int x = 0 / while (x < <a>) { x++ }, layout b / print(x)
WhileLines(p) ==
    InMain(<<<<"i", "n", "t", " ", "x", " ", "=", " ", "0">>>>
           \o BlockHead(<<"w", "h", "i", "l", "e", " ", "(", "x", " ", "<", " ">> \o IntToString(p.a) \o <<")">>, p.b)
           \o <<<<"x", "+", "+">>, <<"}">>, <<"p", "r", "i", "n", "t", "(", "x", ")">>>>)

\* The container of an indexing or slicing program: a string (a = 0) or a
\* list (a = 1) of length b.
ContainerSetup(p) ==
    IF p.a = 0 THEN <<<<"s", "t", "r", " ", "v", " ", "=", " ">> \o Quoted(SubSeq(Abc, 1, p.b))>>
    ELSE <<<<"v", " ", "=", " ", "[", "k", " ", "f", "o", "r", " ", "i", "n", "t", " ", "k", " ", "i", "n", " ">> \o IntToString(p.b) \o <<"]">>>>

\* <container> / r = v[<c>]
IndexLines(p) ==
    InMain(ContainerSetup(p) \o <<<<"r", " ", "=", " ", "v", "[">> \o IntToString(p.c) \o <<"]">>>>)

\* A slice bound: -1 stands for an omitted one.
BoundText(k) == IF k < 0 THEN <<>> ELSE IntToString(k)

\* <container> / r = v[<c>:<d>]
SliceLines(p) ==
    InMain(ContainerSetup(p)
           \o <<<<"r", " ", "=", " ", "v", "[">> \o BoundText(p.c) \o <<":">> \o BoundText(p.d) \o <<"]">>>>)

\* <container> / t = v[::-1] / r = t[::-1] / q = v[::-1][::-1]
RevLines(p) ==
    InMain(ContainerSetup(p) \o <<<<"t", " ", "=", " ", "v", "[", ":", ":", "-", "1", "]">>, <<"r", " ", "=", " ", "t", "[", ":", ":", "-", "1", "]">>, <<"q", " ", "=", " ", "v", "[", ":", ":", "-", "1", "]", "[", ":", ":", "-", "1", "]">>>>)

\* The iterable of a loop-variable program: the integer b (a = 0), a string
\* literal of b characters (a = 1) or the list v of b integers (a = 2).
ForVarIterable(p) ==
    CASE p.a = 0 -> IntToString(p.b)
      [] p.a = 1 -> Quoted(SubSeq(Abc, 1, p.b))
      [] OTHER -> <<"v">>

\* [str i = "z"] / v = [k for int k in <b>] / for (int i in <iterable>) {
\* print(i) / print(i) } / print("e"): i is bound before the loop when
\* c = 1, layout d
ForVarLines(p) ==
    InMain((IF p.c = 1 THEN <<<<"s", "t", "r", " ", "i", " ", "=", " ", "\"", "z", "\"">>>> ELSE <<>>)
           \o <<<<"v", " ", "=", " ", "[", "k", " ", "f", "o", "r", " ", "i", "n", "t", " ", "k", " ", "i", "n", " ">> \o IntToString(p.b) \o <<"]">>>>
           \o BlockHead(<<"f", "o", "r", " ", "(", "i", "n", "t", " ", "i", " ", "i", "n", " ">> \o ForVarIterable(p) \o <<")">>, p.d)
           \o <<<<"p", "r", "i", "n", "t", "(", "i", ")">>, <<"p", "r", "i", "n", "t", "(", "i", ")">>, <<"}">>, <<"p", "r", "i", "n", "t", "(", "\"", "e", "\"", ")">>>>)

\* int x = <a> / str s = "{x}" / x = <b> / print(s)
InterpLines(p) ==
    InMain(<<<<"i", "n", "t", " ", "x", " ", "=", " ">> \o IntToString(p.a), <<"s", "t", "r", " ", "s", " ", "=", " ", "\"", "{", "x", "}", "\"">>,
             <<"x", " ", "=", " ">> \o IntToString(p.b), <<"p", "r", "i", "n", "t", "(", "s", ")">>>>)

\* The identifiers assigned to: the last three begin with the spelling of
\* `for`, `while` and `return`.
AssignNames == <<<<"x">>, <<"f", "o", "r", "m", "a", "t">>, <<"w", "h", "i", "l", "e", "C", "o", "u", "n", "t">>, <<"r", "e", "t", "u", "r", "n", "e", "d">>>>

\* <name a> = <b> / print("a") / print("b")
AssignLines(p) ==
    InMain(<<AssignNames[p.a] \o <<" ", "=", " ">> \o IntToString(p.b),
             <<"p", "r", "i", "n", "t", "(", "\"", "a", "\"", ")">>, <<"p", "r", "i", "n", "t", "(", "\"", "b", "\"", ")">>>>)

\* A conversion applied to a value of its own kind:
\* v = <b> / y = int(v) (a = 0), v = <b>.5 / y = float(v) (a = 1),
\* str s = "<b>" / z = int(s) / y = int(int(s)) (a = 2)
SameLines(p) ==
    InMain(CASE p.a = 0 -> <<<<"v", " ", "=", " ">> \o IntToString(p.b), <<"y", " ", "=", " ", "i", "n", "t", "(", "v", ")">>>>
             [] p.a = 1 -> <<<<"v", " ", "=", " ">> \o IntToString(p.b) \o <<".", "5">>, <<"y", " ", "=", " ", "f", "l", "o", "a", "t", "(", "v", ")">>>>
             [] OTHER -> <<<<"s", "t", "r", " ", "s", " ", "=", " ">> \o Quoted(IntToString(p.b)),
                           <<"z", " ", "=", " ", "i", "n", "t", "(", "s", ")">>, <<"y", " ", "=", " ", "i", "n", "t", "(", "i", "n", "t", "(", "s", ")", ")">>>>)

\* str s = input() / print(s) / print(random.rng([)
IoLines(p) ==
    InMain(<<<<"s", "t", "r", " ", "s", " ", "=", " ", "i", "n", "p", "u", "t", "(", ")">>, <<"p", "r", "i", "n", "t", "(", "s", ")">>, <<"p", "r", "i", "n", "t", "(", "r", "a", "n", "d", "o", "m", ".", "r", "n", "g", "(", "[", ")">>>>)

FileLines(p) ==
    CASE p.kind = "for" -> ForLines(p)
      [] p.kind = "arith" -> ArithLines(p)
      [] p.kind = "append" -> AppendLines(p)
      [] p.kind = "compr" -> ComprLines(p)
      [] p.kind = "classes" -> ClassLines(p)
      [] p.kind = "conv" -> ConvLines(p)
      [] p.kind = "while" -> WhileLines(p)
      [] p.kind = "index" -> IndexLines(p)
      [] p.kind = "slice" -> SliceLines(p)
      [] p.kind = "io" -> IoLines(p)
      [] p.kind = "rev" -> RevLines(p)
      [] p.kind = "forvar" -> ForVarLines(p)
      [] p.kind = "interp" -> InterpLines(p)
      [] p.kind = "assign" -> AssignLines(p)
      [] p.kind = "same" -> SameLines(p)
      [] p.kind = "nodollar" -> <<<<"c", "l", "a", "s", "s", " ", "M", "a", "i", "n", " ", "{">>, <<"p", "r", "i", "n", "t", "(", "\"", "m", "\"", ")">>, <<"}">>>>
      [] p.kind = "noclass" -> <<<<"$", "M", "a", "i", "n">>, <<"c", "l", "a", "s", "s", " ", "O", "t", "h", "e", "r", " ", "{">>, <<"p", "r", "i", "n", "t", "(", "\"", "o", "\"", ")">>, <<"}">>>>
      [] OTHER -> <<>>

\* Whether program.hm can be opened.
FileOpens(p) == p.kind # "nofile"

Programs ==
    {Desc("for", n, layout, k, 0) : n \in 0..MaxN, layout \in 0..1, k \in 1..2}
    \cup {Desc("arith", a, b, c, 0) : a \in -1..MaxInt, b \in -1..MaxInt, c \in -1..MaxInt}
    \cup {Desc("append", e, form, 0, 0) : e \in 0..1, form \in 0..1}
    \cup {Desc("compr", 0, n, o, pre) : n \in -1..MaxN, o \in 0..1, pre \in 0..1}
    \cup {Desc("compr", k, n, o, pre) : k \in 1..2, n \in 0..MaxLen, o \in 0..1, pre \in 0..1}
    \cup {Desc("compr", 3, n, o, pre) : n \in 0..2, o \in 0..1, pre \in 0..1}
    \cup {Desc("classes", v, 0, 0, 0) : v \in 0..4}
    \cup {Desc("conv", f, t, 0, 0) : f \in 0..1, t \in 1..Len(ConvTexts)}
    \cup {Desc("while", n, layout, 0, 0) : n \in 0..MaxN, layout \in 0..1}
    \cup {Desc("index", k, len, i, 0) :
            k \in 0..1, len \in 0..MaxLen, i \in (0 - MaxLen - 1)..(MaxLen + 1)}
    \cup {Desc("slice", k, len, s, e) :
            k \in 0..1, len \in 0..MaxLen, s \in -1..MaxLen, e \in -1..(MaxLen + 1)}
    \cup {Desc("rev", k, len, 0, 0) : k \in 0..1, len \in 0..MaxLen}
    \cup {Desc("forvar", k, len, pre, layout) :
            k \in 0..2, len \in 0..MaxLen, pre \in 0..1, layout \in 0..1}
    \cup {Desc("interp", a, b, 0, 0) : a \in 0..MaxInt, b \in 0..MaxInt}
    \cup {Desc("assign", n, e, 0, 0) : n \in 1..Len(AssignNames), e \in 0..MaxInt}
    \cup {Desc("same", form, e, 0, 0) : form \in 0..2, e \in 0..MaxInt}
    \cup {Desc(k, 0, 0, 0, 0) : k \in {"io", "nodollar", "noclass", "nofile"}}

\* Standard input matters to a program that calls input, the generator's
\* bits to one that draws from it.
StdinFiles == {<<>>, <<<<"7">>>>}
RngDraws == 1
RngStreams == [1..RngDraws -> {0, 1}]
ArgOrders == {"ltr", "rtl"}

----------------------------------------------------------------------------
(* main(): loadProgram, run, and executeBlock one line at a time.  An      *)
(* activation of executeBlock is a "block" record; a loop it is running is *)
(* the "while" or "for" record above it, whose lines are the loop's body.  *)

Frame(kind, lines, i, cond, varName, items) ==
    [kind |-> kind, lines |-> lines, i |-> i, cond |-> cond, varName |-> varName,
     items |-> items]
BlockFrame(lines) == Frame("block", lines, 0, <<>>, <<>>, <<>>)

Top == stack[Len(stack)]
Pop == SubSeq(stack, 1, Len(stack) - 1)
InBlock == pc = "exec" /\ Top.kind = "block" /\ Top.i < Len(Top.lines)
Line == trim(removeComments(Top.lines[Top.i + 1]))
IsWhile == Line # <<>> /\ Find(Line, <<"w", "h", "i", "l", "e">>, 0) = 0
IsFor == Line # <<>> /\ ~IsWhile /\ Find(Line, <<"f", "o", "r">>, 0) = 0
IsReturn == Line # <<>> /\ ~IsWhile /\ ~IsFor /\ Find(Line, <<"r", "e", "t", "u", "r", "n">>, 0) = 0
IsStatement == Line # <<>> /\ ~IsWhile /\ ~IsFor /\ ~IsReturn

\* main() takes one more step.
Tick == steps' = 1 - steps

\* The interpreter's state as an evaluation sees it.
St ==
    [variables |-> variables, out |-> out, stdin |-> stdin, rng |-> rng,
     classes |-> classes, exc |-> ""]

\* The interpreter takes over the state an evaluation left; an exception
\* nothing catches ends the process.
Commit(st, nextStack) ==
    /\ variables' = st.variables
    /\ out' = st.out
    /\ stdin' = st.stdin
    /\ rng' = st.rng
    /\ IF st.exc # ""
       THEN pc' = "aborted" /\ stack' = stack
       ELSE pc' = pc /\ stack' = nextStack
    /\ UNCHANGED <<program, argOrder, mainClass, classes, err>>
    /\ Tick

\* i += k in the innermost activation of executeBlock below the top record.
Advanced(stk, k) == [stk EXCEPT ![Len(stk)].i = @ + k]

\* braceCount after the `{` test of one line of the gathering loop.
Opened(line, braceCount) ==
    IF Contains(line, <<"{">>) THEN braceCount + 1 ELSE braceCount

\* The loop that gathers a loop body: [i, block].
RECURSIVE CollectBlock(_, _, _, _)
CollectBlock(lines, i, braceCount, loopBlock) ==
    IF i < Len(lines) /\ braceCount > 0
    THEN IF Contains(lines[i + 1], <<"}">>)
         THEN IF Opened(lines[i + 1], braceCount) - 1 = 0
              THEN [i |-> i, block |-> loopBlock]
              ELSE CollectBlock(lines, i + 1, Opened(lines[i + 1], braceCount) - 1,
                                Append(loopBlock, lines[i + 1]))
         ELSE CollectBlock(lines, i + 1, Opened(lines[i + 1], braceCount),
                           Append(loopBlock, lines[i + 1]))
    ELSE [i |-> i, block |-> loopBlock]

\* The number of lines a block head steps over before its body is gathered.
HeadSkip == 2

\* The text between the first `(` and the first `)` of a block head.
HeadText(line) ==
    Substr(line, Find(line, <<"(">>, 0) + 1,
           Find(line, <<")">>, 0) - Find(line, <<"(">>, 0) - 1)

\* loadProgram(filename): the classes of the file and the entry class.
Loaded(r) ==
    /\ mainClass' = r.mainClass
    /\ classes' = r.classes

LoadProgram ==
    /\ pc = "start"
    /\ pc' = "loaded"
    /\ IF FileOpens(program)
       THEN Loaded(ParseProgram(FileLines(program), 0, mainClass, classes))
            /\ err' = err
       ELSE /\ err' = Append(err, "Error: Could not open file program.hm")
            /\ UNCHANGED <<mainClass, classes>>
    /\ UNCHANGED <<program, stdin, rng, argOrder, variables, stack, out>>
    /\ Tick

\* run() up to its call of executeBlock.  It loads the file once more, then
\* reads it again to find the entry class.
Run ==
    /\ pc = "loaded"
    /\ IF mainClass = <<>> \/ mainClass \notin classes
       THEN /\ err' = Append(err, "Error: Main class not found")
            /\ pc' = "done"
            /\ UNCHANGED <<mainClass, classes, stack>>
       ELSE /\ Loaded(ParseProgram(FileLines(program), 0, mainClass, classes))
            /\ stack' = <<BlockFrame(ExtractMainClassBody(FileLines(program),
                                                           mainClass'))>>
            /\ pc' = "exec"
            /\ err' = err
    /\ UNCHANGED <<program, stdin, rng, argOrder, variables, out>>
    /\ Tick

SkipBlank ==
    /\ InBlock /\ Line = <<>>
    /\ stack' = Advanced(stack, 1)
    /\ UNCHANGED <<program, stdin, rng, argOrder, pc, mainClass, classes, variables,
                   out, err>>
    /\ Tick

\* The activation has stepped past the loop; the loop record is above it.
Entered(c, loop) == Append([stack EXCEPT ![Len(stack)].i = c.i], loop)
WhileFrame(c, cond) == Entered(c, Frame("while", c.block, 0, cond, <<>>, <<>>))
ForFrame(c, varName, items) ==
    Entered(c, Frame("for", c.block, 0, <<>>, varName, items))

EnterWhile ==
    /\ InBlock /\ IsWhile
    /\ stack' = WhileFrame(CollectBlock(Top.lines, Top.i + HeadSkip, 1, <<>>),
                           HeadText(Line))
    /\ UNCHANGED <<program, stdin, rng, argOrder, pc, mainClass, classes, variables,
                   out, err>>
    /\ Tick

\* r is the evaluation of the loop's condition.
Tested(r) ==
    Commit(r.st, IF toBool(r.val) THEN Append(stack, BlockFrame(Top.lines))
                 ELSE Advanced(Pop, 1))

\* while (evaluateExpression(condition).toBool()): one test of the
\* condition, which starts the body once more or leaves the loop.
WhileTest ==
    /\ pc = "exec" /\ Top.kind = "while"
    /\ Tested(evaluateExpression(Top.cond, St))

\* The name between the first blank of the header and its ` in `.
ForVarName(forHeader) ==
    trim(Substr(forHeader, Find(forHeader, <<" ">>, 0) + 1,
                Find(forHeader, <<" ", "i", "n", " ">>, 0) - Find(forHeader, <<" ">>, 0) - 1))

\* r is the evaluation of the iterable expression.
Iterating(varName, r) ==
    Commit(r.st, ForFrame(CollectBlock(Top.lines, Top.i + HeadSkip, 1, <<>>),
                          varName, IterItems(r.val)))

ForOver(forHeader) ==
    IF SubstrThrows(forHeader, Find(forHeader, <<" ", "i", "n", " ">>, 0) + 4)
    THEN Commit(Throw(St, "out_of_range"), stack)
    ELSE Iterating(ForVarName(forHeader),
                   evaluateExpression(
                       trim(SubstrFrom(forHeader, Find(forHeader, <<" ", "i", "n", " ">>, 0) + 4)),
                       St))

EnterFor ==
    /\ InBlock /\ IsFor
    /\ ForOver(HeadText(Line))

\* ForNext with the loop variable dropped when the loop is left.
ForNextScoped ==
    /\ pc = "exec" /\ Top.kind = "for"
    /\ IF Top.items = <<>>
       THEN stack' = Advanced(Pop, 1) /\ variables' = Erase(variables, Top.varName)
       ELSE /\ variables' = Bind(variables, Top.varName, Top.items[1])
            /\ stack' = Append([stack EXCEPT ![Len(stack)].items = Tail(@)],
                               BlockFrame(Top.lines))
    /\ UNCHANGED <<program, stdin, rng, argOrder, pc, mainClass, classes, out, err>>
    /\ Tick

\* One turn of the for statement over the iterable: the next element is
\* bound and the body started, or the loop is left.
ForNext ==
    /\ pc = "exec" /\ Top.kind = "for"
    /\ IF Top.items = <<>>
       THEN stack' = Advanced(Pop, 1) /\ variables' = variables
       ELSE /\ variables' = Bind(variables, Top.varName, Top.items[1])
            /\ stack' = Append([stack EXCEPT ![Len(stack)].items = Tail(@)],
                               BlockFrame(Top.lines))
    /\ UNCHANGED <<program, stdin, rng, argOrder, pc, mainClass, classes, out, err>>
    /\ Tick

SkipReturn ==
    /\ InBlock /\ IsReturn
    /\ stack' = Advanced(stack, 1)
    /\ UNCHANGED <<program, stdin, rng, argOrder, pc, mainClass, classes, variables,
                   out, err>>
    /\ Tick

Statement ==
    /\ InBlock /\ IsStatement
    /\ Commit(executeStatement(Line, St), Advanced(stack, 1))

\* executeBlock returns: to the loop that called it, or to run(), and then
\* main() returns.
ExitBlock ==
    /\ pc = "exec" /\ Top.kind = "block" /\ Top.i >= Len(Top.lines)
    /\ stack' = Pop
    /\ pc' = IF Len(stack) = 1 THEN "done" ELSE pc
    /\ UNCHANGED <<program, stdin, rng, argOrder, mainClass, classes, variables,
                   out, err>>
    /\ Tick

Init ==
    /\ program \in Programs
    /\ stdin \in (IF program.kind = "io" THEN StdinFiles ELSE {<<>>})
    /\ rng \in (IF program.kind = "io" THEN RngStreams ELSE {<<>>})
    /\ argOrder \in ArgOrders
    /\ pc = "start"
    /\ mainClass = <<>>
    /\ classes = {}
    /\ variables = EmptyEnv
    /\ stack = <<>>
    /\ out = <<>>
    /\ err = <<>>
    /\ steps = 0

Next ==
    \/ LoadProgram
    \/ Run
    \/ SkipBlank
    \/ EnterWhile
    \/ WhileTest
    \/ EnterFor
    \/ ForNext
    \/ SkipReturn
    \/ Statement
    \/ ExitBlock

Spec == Init /\ [][Next]_vars

\* main() is one thread that runs until it returns or the process ends:
\* while it has done neither, it takes its next step.
Running == pc \in {"start", "loaded", "exec"}
FairSpec == Spec /\ WF_steps(Running /\ Tick)

----------------------------------------------------------------------------
(* Properties of the interpreter, stated on the runs of main().            *)

\* What a for statement over 0..n-1 with c body lines `print(i)` prints,
\* from element k on, followed by the "e" printed after the loop.
RECURSIVE ForOutput(_, _, _)
ForOutput(k, n, c) ==
    IF k >= n THEN <<"e">>
    ELSE Concat([j \in 1..c |-> IntToString(k)]) \o ForOutput(k + 1, n, c)

\* C1: a for statement whose `{` ends the header line runs every body line,
\* the first one included, once per element of the iterable and in element
\* order, the name bound to the element: `for (int i in 3) {` / `print(i)` /
\* `}` prints 012.
C1_ForRunsEveryBodyLine ==
    (program.kind = "for" /\ program.b = 0 /\ pc = "done")
        => out = ForOutput(0, program.a, program.c)

\* The documented program has run and printed nothing from its loop.
C1_FirstBodyLineSkipped ==
    /\ program = Desc("for", 3, 0, 1, 0)
    /\ pc = "done"
    /\ out = <<"e">>

\* C2 as the code has it: for integers a, b, c bound to variables, `a-b+c`
\* yields (a - b) + c: the split at the rightmost `+` leaves `a-b` on its
\* left and `c` on its right.
C2_SplitAtRightmostPlus ==
    program.kind = "arith"
        => /\ pc # "aborted"
           /\ pc = "done" =>
                /\ Has(variables, <<"r">>)
                /\ variables[<<"r">>] = ValueInt((program.a - program.b) + program.c)

\* C2: for integers a, b, c bound to variables, `a-b+c` yields a - (b + c).
C2_MinusOfSum ==
    (program.kind = "arith" /\ pc = "done")
        => variables[<<"r">>] = ValueInt(program.a - (program.b + program.c))

\* 2-1+1 has been evaluated, to 2 and not to 0.
C2_Evaluated ==
    /\ program = Desc("arith", 2, 1, 1, 0)
    /\ pc = "done"
    /\ variables[<<"r">>] = ValueInt(2)

\* C3: `xs.append(e)`, as a statement or as an expression, pushes the value
\* of e onto the list bound to xs, whose length grows by one and whose last
\* element is that value; the call yields absent.
C3_AppendPushes ==
    (program.kind = "append" /\ pc = "done")
        => /\ variables[<<"x", "s">>].listVal = <<ValueInt(program.a)>>
           /\ variables[<<"n">>] = ValueInt(1)
           /\ program.b = 1 => variables[<<"r">>] = ValueNone

\* The statement `xs.append(1)` has run and the list is as it was.
C3_ListUnchanged ==
    /\ program = Desc("append", 1, 0, 0, 0)
    /\ pc = "done"
    /\ variables[<<"x", "s">>].listVal = <<>>
    /\ variables[<<"n">>] = ValueInt(0)

\* The name a statement writes: the target of a declaration, of an
\* assignment, of `++` or of `*=`.
WrittenBy(stmt) ==
    IF MatchDecl(stmt).ok THEN {MatchDecl(stmt).name}
    ELSE IF MatchDecl2(stmt).ok THEN {MatchDecl2(stmt).name}
    ELSE IF MatchAssign(stmt).ok THEN {MatchAssign(stmt).name}
    ELSE IF MatchMemberAssign(stmt).ok THEN {MatchMemberAssign(stmt).obj}
    ELSE IF Find(stmt, <<"+", "+">>, 0) # NPOS THEN {trim(Substr(stmt, 0, Find(stmt, <<"+", "+">>, 0)))}
    ELSE IF Find(stmt, <<"*", "=">>, 0) # NPOS THEN {trim(Substr(stmt, 0, Find(stmt, <<"*", "=">>, 0)))}
    ELSE {}

\* The names the step about to be taken writes: the statement's target, or
\* the variable of the for statement that binds its next element.
Written ==
    IF InBlock /\ IsStatement THEN WrittenBy(Line)
    ELSE IF pc = "exec" /\ Top.kind = "for" THEN {Top.varName}
    ELSE {}

\* C4: the evaluation of an expression leaves the environment as it was.  A
\* step that does not end the process changes no binding but the one its
\* statement writes: the expressions it evaluates (look-ups of unbound
\* names, indexing, slicing, member access, comprehensions) create, change
\* and remove none, and a comprehension's variable is afterwards bound as it
\* was before, or unbound if it was not bound.
C4_ExpressionsKeepEnvironment ==
    [][pc' # "aborted" =>
          \A n \in (DOMAIN variables \cup DOMAIN variables') \ Written :
              /\ n \in DOMAIN variables
              /\ n \in DOMAIN variables'
              /\ variables'[n] = variables[n]]_vars

\* A comprehension over a non-empty iterable has been evaluated with its
\* variable bound beforehand, and the variable has its earlier value.
C4_ComprehensionEvaluated ==
    /\ program.kind = "compr" /\ program.a = 0 /\ program.b >= 1 /\ program.d = 1
    /\ pc = "done"
    /\ Len(variables[<<"x", "s">>].listVal) = program.b
    /\ variables[<<"i">>] = ValueInt(7)

\* C5: the lines run() hands to the statement executor are the top-level
\* lines of the body of the class the `$` directive names: no line of a
\* function body and no line of another class, defined before or after it,
\* its name beginning with the entry name or not.
C5_OnlyEntryClassTopLevel ==
    (program.kind = "classes" /\ pc = "exec")
        => stack[1].lines = ClassTopLevel(program)

\* A file whose entry class defines a function has been run, and a line of
\* the class that follows has been executed.
C5_OtherClassExecuted ==
    /\ program = Desc("classes", 2, 0, 0, 0)
    /\ pc = "done"
    /\ out = <<"m", "o">>

\* The conversion programs whose text is no decimal number.
Malformed(p) == ConvTexts[p.b] \in {<<>>, <<"a", "b", "c">>}

\* C6: int(s) and float(s) on a string that is no well-formed decimal
\* number fail silently: the call yields absent, nothing is raised, the
\* environment is unchanged and the next statement is executed.
C6_MalformedConversionIsSilent ==
    (program.kind = "conv" /\ Malformed(program))
        => /\ pc # "aborted"
           /\ pc = "done" =>
                /\ Has(variables, <<"y">>)
                /\ variables[<<"y">>] = ValueNone
                /\ out = <<"k">>

\* int("abc") has ended the process before the next statement.
C6_ConversionAborts ==
    /\ program = Desc("conv", 0, 2, 0, 0)
    /\ pc = "aborted"
    /\ out = <<>>
    /\ ~Has(variables, <<"y">>)

\* C7: `int x = 0` / `while (x < n) {` / `x++` / `}` eventually finishes
\* its loop, for every n >= 0, with x equal to n, and the statements after
\* the closing `}` are then executed.
C7_WhileFinishes ==
    (program.kind = "while" /\ program.b = 0)
        ~> /\ pc = "done"
           /\ Has(variables, <<"x">>)
           /\ variables[<<"x">>] = ValueInt(program.a)
           /\ out = IntToString(program.a)

\* The loop is running with an empty body and a condition that holds.
C7_EmptyBodyLoops ==
    /\ program.kind = "while" /\ program.b = 0 /\ program.a >= 1
    /\ pc = "exec"
    /\ Top.kind = "while"
    /\ Top.lines = <<>>
    /\ variables[<<"x">>] = ValueInt(0)

\* The elements of the iterable of a comprehension program, in order.
ComprElements(p) ==
    CASE p.a = 0 -> [k \in 1..p.b |-> ValueInt(k - 1)]
      [] p.a = 1 -> [k \in 1..p.b |-> ValueString(<<Abc[k]>>)]
      [] p.a = 2 -> [k \in 1..p.b |-> ValueInt(k - 1)]
      [] OTHER -> <<>>

\* The value of the program's <out> with its variable bound to e.
ComprOutput(p, e) ==
    evaluateExpression(OutText(p), [St EXCEPT !.variables = Bind(@, <<"i">>, e)]).val

\* C8: `[<out> for <type> <name> in <iter>]` yields one element per element
\* of the iterable, in order, each the value of <out> with <name> bound to
\* the element: an integer n >= 0 iterates as 0..n-1, a list element by
\* element, a string as one-character strings, and any other kind, and a
\* negative integer, gives the empty list.
C8_ComprehensionMaps ==
    program.kind = "compr"
        => /\ pc # "aborted"
           /\ pc = "done" =>
                /\ variables[<<"x", "s">>].type = "LIST"
                /\ variables[<<"x", "s">>].listVal =
                      [k \in 1..Len(ComprElements(program)) |->
                          ComprOutput(program, ComprElements(program)[k])]

\* [i for int i in 3] has yielded [0, 1, 2].
C8_ComprehensionOverInteger ==
    /\ program = Desc("compr", 0, 3, 0, 0)
    /\ pc = "done"
    /\ variables[<<"x", "s">>].listVal = <<ValueInt(0), ValueInt(1), ValueInt(2)>>

\* The element at position pos of the container of an indexing or slicing
\* program, and the container itself.
ContainerElement(p, pos) ==
    IF p.a = 0 THEN ValueString(<<Abc[pos + 1]>>) ELSE ValueInt(pos)
ContainerValue(p) ==
    IF p.a = 0 THEN ValueString(SubSeq(Abc, 1, p.b))
    ELSE [ValueNone EXCEPT !.type = "LIST",
                           !.listVal = [k \in 1..p.b |-> ValueInt(k - 1)]]

\* C9: for v a list or string of length L and an integer i, `v[i]` yields
\* the element at i when 0 <= i < L, the element at L + i when -L <= i < 0,
\* and absent for every other i; nothing is raised and v is unchanged.
C9_IndexWrapsOnce ==
    program.kind = "index"
        => /\ pc # "aborted"
           /\ Has(variables, <<"v">>) => variables[<<"v">>] = ContainerValue(program)
           /\ pc = "done" =>
                variables[<<"r">>] =
                    IF 0 <= program.c /\ program.c < program.b
                    THEN ContainerElement(program, program.c)
                    ELSE IF 0 - program.b <= program.c /\ program.c < 0
                    THEN ContainerElement(program, program.b + program.c)
                    ELSE ValueNone

\* v[-1] has yielded the last element of a list of three.
C9_LastElement ==
    /\ program = Desc("index", 1, 3, -1, 0)
    /\ pc = "done"
    /\ variables[<<"r">>] = ValueInt(2)

\* The bounds a slicing program writes, an omitted start meaning 0 and an
\* omitted or too large end the length.
SliceFrom(p) == IF p.c < 0 THEN 0 ELSE p.c
SliceTo(p) == IF p.d < 0 \/ p.d > p.b THEN p.b ELSE p.d

\* The elements of the container at the positions from..to-1.
SliceOf(p, from, to) ==
    IF p.a = 0 THEN ValueString([k \in 1..(to - from) |-> Abc[from + k]])
    ELSE [ValueNone EXCEPT !.type = "LIST",
                           !.listVal = [k \in 1..(to - from) |-> ValueInt(from + k - 1)]]

\* C10: for v a string or list of length L, `v[a:b]` with a <= L yields the
\* elements at the positions p with a <= p < min(b, L), in order, an omitted
\* a meaning 0 and an omitted b meaning L; strings and lists alike, so the
\* result is empty when b <= a.
C10_SliceIsRange ==
    (program.kind = "slice" /\ SliceFrom(program) <= program.b)
        => /\ pc # "aborted"
           /\ pc = "done" =>
                variables[<<"r">>] = SliceOf(program, SliceFrom(program), SliceTo(program))

\* "abc"[2:1] has yielded "c".
C10_StringTail ==
    /\ program = Desc("slice", 0, 3, 2, 1)
    /\ pc = "done"
    /\ variables[<<"r">>] = ValueString(<<"c">>)

\* The elements of a string or list value.
Elements(v) == IF v.type = "STRING" THEN v.stringVal ELSE v.listVal

\* C11: reversal by `[::-1]` is an involution: for s a string or a list,
\* `t = s[::-1]` binds t to the elements of s in the opposite order,
\* `t[::-1]` then yields a value equal to s, and so does the single
\* expression `s[::-1][::-1]`; s is unchanged by either.
C11_ReversalIsInvolution ==
    program.kind = "rev"
        => /\ pc # "aborted"
           /\ Has(variables, <<"v">>) => variables[<<"v">>] = ContainerValue(program)
           /\ Has(variables, <<"t">>) =>
                /\ variables[<<"t">>].type = ContainerValue(program).type
                /\ Elements(variables[<<"t">>]) =
                      [k \in 1..program.b |->
                          Elements(ContainerValue(program))[program.b + 1 - k]]
           /\ Has(variables, <<"r">>) => variables[<<"r">>] = ContainerValue(program)
           /\ Has(variables, <<"q">>) => variables[<<"q">>] = ContainerValue(program)

\* "abc" has been reversed to "cba", and both double reversals are "abc".
C11_ReversedTwice ==
    /\ program = Desc("rev", 0, 3, 0, 0)
    /\ pc = "done"
    /\ variables[<<"t">>] = ValueString(<<"c", "b", "a">>)
    /\ variables[<<"r">>] = ValueString(<<"a", "b", "c">>)
    /\ variables[<<"q">>] = ValueString(<<"a", "b", "c">>)

\* The binding of i before the loop of a loop-variable program, and the last
\* element its loop iterates.
ForVarBefore(p) == IF p.c = 1 THEN Bind(EmptyEnv, <<"i">>, ValueString(<<"z">>)) ELSE EmptyEnv
ForVarLast(p) == IF p.a = 1 THEN ValueString(<<Abc[p.b]>>) ELSE ValueInt(p.b - 1)

\* C12: a `for` loop does not restore its loop variable: when the program
\* has finished, the loop variable i is bound to the last element iterated
\* (n-1 for an integer n) whatever i was bound to before the loop, and over
\* an empty iterable i has the binding, or the lack of one, it had before.
C12_ForLeavesLoopVariable ==
    program.kind = "forvar"
        => /\ pc # "aborted"
           /\ pc = "done" =>
                IF program.b = 0
                THEN /\ Has(variables, <<"i">>) = Has(ForVarBefore(program), <<"i">>)
                     /\ Has(variables, <<"i">>) => variables[<<"i">>] = ForVarBefore(program)[<<"i">>]
                ELSE Has(variables, <<"i">>) /\ variables[<<"i">>] = ForVarLast(program)

\* The loop over "abc" has finished with i, a string "z" before the loop,
\* bound to "c".
C12_LoopVariableOutlivesLoop ==
    /\ program = Desc("forvar", 1, 3, 1, 1)
    /\ pc = "done"
    /\ variables[<<"i">>] = ValueString(<<"c">>)
    /\ out = <<"a", "a", "b", "b", "c", "c", "e">>

\* C13: on a hard error the run emits a diagnostic and stops: when the
\* program file cannot be opened, has no `$` directive, or names an entry
\* class that is not defined, loadProgram followed by run writes at most one
\* line to standard error, executes no statement, writes nothing to standard
\* output and leaves the variable environment empty.
C13_HardErrorReportedOnce ==
    program.kind \in {"nofile", "nodollar", "noclass"}
        => /\ Len(err) <= 1
           /\ pc # "exec" /\ stack = <<>>
           /\ out = <<>>
           /\ variables = EmptyEnv

\* program.hm could not be opened and the run has ended with two
\* diagnostics, the loader's and run's.
C13_TwoDiagnostics ==
    /\ program.kind = "nofile"
    /\ pc = "done"
    /\ err = <<"Error: Could not open file program.hm", "Error: Main class not found">>
    /\ out = <<>> /\ variables = EmptyEnv

\* C14: the `{expr}` segments of a string value are resolved against the
\* environment in effect when the string is rendered, not when the literal
\* was evaluated: after `int x = <a>`, `str s = "{x}"`, `x = <b>`, the
\* statement `print(s)` emits <b>.
C14_InterpolatedWhenRendered ==
    program.kind = "interp"
        => /\ pc # "aborted"
           /\ pc = "done" => out = IntToString(program.b)

\* After `int x = 1`, `str s = "{x}"`, `x = 2`, s holds the text 1 and
\* `print(s)` has emitted 1.
C14_InterpolatedWhenEvaluated ==
    /\ program = Desc("interp", 1, 2, 0, 0)
    /\ pc = "done"
    /\ variables[<<"x">>] = ValueInt(2)
    /\ variables[<<"s">>] = ValueString(<<"1">>)
    /\ out = <<"1">>

\* C15: a body line `<name> = <expr>` binds <name> to the value of <expr>
\* and consumes exactly that one line, so the following line is executed
\* next, for every identifier, those beginning with `for`, `while` or
\* `return` included: `<name> = <e>` / `print("a")` / `print("b")` ends
\* with <name> bound to <e> and ab emitted.
C15_AssignmentConsumesOneLine ==
    program.kind = "assign"
        => /\ pc # "aborted"
           /\ pc = "done" =>
                /\ Has(variables, AssignNames[program.a])
                /\ variables[AssignNames[program.a]] = ValueInt(program.b)
                /\ out = <<"a", "b">>

\* `format = 1` / `print("a")` / `print("b")` has ended with format unbound
\* and nothing emitted.
C15_FormatTakenForALoop ==
    /\ program = Desc("assign", 2, 1, 0, 0)
    /\ pc = "done"
    /\ variables = EmptyEnv
    /\ out = <<>>

\* C16: the conversion built-ins preserve a value that already has the
\* target kind: `int(v)` yields the integer v, `float(v)` yields v for a
\* floating v, and `int(int(e))` equals `int(e)` for a text e that `int`
\* accepts.
C16_ConversionKeepsOwnKind ==
    program.kind = "same"
        => /\ pc # "aborted"
           /\ Has(variables, <<"y">>) =>
                CASE program.a = 0 -> variables[<<"y">>] = ValueInt(program.b)
                  [] program.a = 1 ->
                        variables[<<"y">>] = ValueFloat(program.b * FloatScale + 500)
                  [] OTHER -> /\ variables[<<"z">>] = ValueInt(program.b)
                              /\ variables[<<"y">>] = variables[<<"z">>]

\* `v = 2` / `y = int(v)` has ended with v the integer 2 and y the
\* integer 0.
C16_IntOfIntegerIsZero ==
    /\ program = Desc("same", 0, 2, 0, 0)
    /\ pc = "done"
    /\ variables[<<"v">>] = ValueInt(2)
    /\ variables[<<"y">>] = ValueInt(0)

====
